---- MODULE Spec2Model ----
(***************************************************************************)
(* Model of src/backup_restore.py: the TelecomBackup backup/restore        *)
(* orchestration and the command line that drives it.                      *)
(*                                                                         *)
(* One command runs at a time (the tool is single-threaded and             *)
(* synchronous).  A command is executed in steps, one per statement group  *)
(* of the source; `pc` is the position of the running command.  The        *)
(* environment (the live filesystem, the database engine, the clock, I/O   *)
(* errors) is nondeterministic within the bounds below.                    *)
(***************************************************************************)
EXTENDS Integers, Sequences, FiniteSets, TLC

VARIABLES
    clock,      \* wall-clock second read by create_timestamp
    live,       \* live filesystem: configuration path -> entry
    root,       \* the backup root directory: file name -> node
    pc,         \* position of the running command ("idle" when none runs)
    cmd,        \* the running command: [name, timestamp, target]
    ts,         \* local `timestamp` of the running operation
    results,    \* local `backup_results` of the running component backup
    info,       \* local `backup_info` of create_full_backup
    si,         \* loop index: service (backup/restore of configurations),
                \*             database (backup/restore of databases)
    pi,         \* loop index: path within the service
    outcome,    \* what the last command returned: [ret, raised, exit]
    log,        \* external events of the running command, in order
    faults,     \* number of I/O or engine failures injected so far
    envWrites,  \* number of changes the environment made to live paths
    restores,   \* number of restore commands run so far
    removed_count, \* local `removed_count` of cleanup_old_backups
    backups,    \* local `backups` of list_backups
    pending,    \* files a running glob loop has still to visit
    runs        \* two more invocations of the tool, running at once

vars == <<clock, live, root, pc, cmd, ts, results, info, si, pi, outcome, log,
          faults, envWrites, restores, removed_count, backups, pending,
          runs>>

\* everything but the backup root and the concurrent invocations
mainVars == <<clock, live, pc, cmd, ts, results, info, si, pi, outcome, log,
              faults, envWrites, restores, removed_count, backups, pending>>

----------------------------------------------------------------------------
(* Bounds of the model.                                                    *)

\* restore commands per behaviour
MaxRestores == 1
\* changes the environment makes to live configuration paths
MaxEnvWrites == 1
\* injected failures (copy, archive, extraction, engine, dump, restore)
MaxFaults == 1
\* how many registered paths (in registry order) can exist on the live host
NumLivePaths == 2
\* earlier runs of the tool whose files a catalogue starts with
MaxOldRuns == 3
\* days that can pass between commands
MaxDays == 2
\* restore commands run again after the first ones
MaxRetries == 1

----------------------------------------------------------------------------
(* Program constants.                                                      *)

\* self.config_paths: service -> list of paths, in dictionary order.
\* A path is the sequence of its components.
config_paths ==
    << [service |-> "kamailio",   paths |-> << <<"etc", "kamailio">> >>],
       [service |-> "freeradius", paths |-> << <<"etc", "freeradius">> >>],
       [service |-> "mariadb",    paths |-> << <<"etc", "mysql">> >>],
       [service |-> "keepalived", paths |-> << <<"etc", "keepalived">> >>],
       [service |-> "puppet",     paths |-> << <<"etc", "puppetlabs">> >>],
       [service |-> "monitoring", paths |-> << <<"opt", "monitoring">> >>],
       [service |-> "ssl_certs",  paths |-> << <<"etc", "ssl">>, <<"opt", "ca">> >>],
       [service |-> "wireguard",  paths |-> << <<"etc", "wireguard">> >>],
       [service |-> "haproxy",    paths |-> << <<"etc", "haproxy">> >>] >>

\* self.db_config['databases']
db_databases == <<"kamailio", "radius", "mysql">>

\* create_timestamp: strftime("%Y%m%d_%H%M%S") of the clock
create_timestamp(c) == "20240101_00000" \o ToString(c)

\* Path(path).name
PathName(path) == path[Len(path)]

Services == {config_paths[k].service : k \in 1..Len(config_paths)}

\* Mutant: a service the registry does not have is looked for under /etc.
PathsOfByName(service) ==
    IF service \in Services
    THEN config_paths[CHOOSE k \in 1..Len(config_paths) :
                          config_paths[k].service = service].paths
    ELSE << <<"etc", service>> >>

\* self.config_paths.get(service, [])
PathsOf(service) ==
    IF service \in Services
    THEN config_paths[CHOOSE k \in 1..Len(config_paths) :
                          config_paths[k].service = service].paths
    ELSE <<>>

RECURSIVE FlatPathsFrom(_)
FlatPathsFrom(k) ==
    IF k > Len(config_paths) THEN <<>>
    ELSE config_paths[k].paths \o FlatPathsFrom(k + 1)

\* every registered path, in registry order
FlatPaths == FlatPathsFrom(1)
RegisteredPaths == {FlatPaths[k] : k \in 1..Len(FlatPaths)}

\* the registered paths that can exist on the modelled host
PopulatedPaths == {FlatPaths[k] : k \in 1..NumLivePaths}

\* a path of the host that the registry does not have, and every path of
\* the host the model follows
UnregisteredPaths == {<<"etc", "nosuch">>}
LivePaths == RegisteredPaths \cup UnregisteredPaths

----------------------------------------------------------------------------
(* Filesystem values.                                                      *)

\* An entry is a file or a directory tree with its content, or nothing.
\* Content is opaque: what the host held at first, what somebody wrote
\* later; "torn" is what an interrupted copy leaves,
\* "" is a directory made by mkdir or a file just opened for writing.
Absent == [kind |-> "absent", data |-> ""]
Original == "original"
Edited == "edited"
Torn == "torn"
MadeDir == [kind |-> "dir", data |-> ""]

\* A tree maps a relative path to the entry there.
EmptyTree == [x \in {} |-> Absent]
TreePut(tree, rel, e) ==
    [k \in DOMAIN tree \cup {rel} |-> IF k = rel THEN e ELSE tree[k]]

\* Mutant: the archive members are not placed under the arcname.
RootedNowhere(tree, a) == tree

\* tar.add(dir, arcname=a): the tree, rooted at the single entry a
Rooted(tree, a) ==
    [k \in {a} \cup {a \o "/" \o r : r \in DOMAIN tree} |->
        IF k = a THEN MadeDir
        ELSE tree[CHOOSE r \in DOMAIN tree : a \o "/" \o r = k]]

\* tar.extractall(dir): members are written over what is there
Extracted(old, members) ==
    [k \in DOMAIN old \cup DOMAIN members |->
        IF k \in DOMAIN members THEN members[k] ELSE old[k]]

\* Nodes of the backup root.
DirNode(tree)  == [kind |-> "dir",  body |-> tree, torn |-> FALSE]
\* Mutant: the archive is left truncated and the backup goes on.
TarNodeTruncated(tree) ==
    [kind |-> "tar", body |-> EmptyTree, torn |-> TRUE, mtime |-> clock]

\* an archive also has the modification time the sweep reads (st_mtime)
TarNode(tree)  == [kind |-> "tar",  body |-> tree, torn |-> FALSE,
                   mtime |-> clock]
TornTar        == [kind |-> "tar",  body |-> EmptyTree, torn |-> TRUE,
                   mtime |-> clock]
JsonNode(data) == [kind |-> "json", body |-> data, torn |-> FALSE]

Exists(name) == name \in DOMAIN root
Put(fs, name, node) ==
    [n \in DOMAIN fs \cup {name} |-> IF n = name THEN node ELSE fs[n]]
Remove(fs, name) == [n \in DOMAIN fs \ {name} |-> fs[n]]

\* Names under the backup root.
StagingName(type, t)  == type \o "_" \o t
ArchiveName(type, t)  == type \o "_backup_" \o t \o ".tar.gz"
MetadataName(t)       == "backup_metadata_" \o t \o ".json"
TempRestoreName(t)    == "temp_restore_" \o t
TempDbRestoreName(t)  == "temp_db_restore_" \o t

\* Mutant: an archive that is there already is kept beside the new one.
WriteArchiveKeepingOld(fs, name, node) ==
    IF name \in DOMAIN fs
    THEN Put(Put(fs, name \o ".1", fs[name]), name, node)
    ELSE Put(fs, name, node)

\* tarfile.open(archive_path, "w:gz"): the file of that name is created,
\* or truncated and written anew
WriteArchive(fs, name, node) == Put(fs, name, node)

\* mkdir(parents=True, exist_ok=True): an existing directory is kept
MkdirExistOk(fs, name) ==
    IF name \in DOMAIN fs THEN fs ELSE Put(fs, name, DirNode(EmptyTree))

\* The clock seconds at which the behaviour's backup command can be run, and
\* the timestamps a restore command can name (the archive of one may well be
\* missing: no backup was made yet, it was of another type, or it failed).
BackupSeconds == {1}
Timestamps == {create_timestamp(c) : c \in BackupSeconds}

NoOutcome == [ret |-> EmptyTree, raised |-> FALSE, exit |-> 0]
NoCmd     == [name |-> "none", arg |-> ""]
NoInfo    == [timestamp |-> "", backup_type |-> "", results |-> EmptyTree]

\* the invocations that run at once, and one that has not been started
Runs == {1, 2}
NoRun == [pc |-> "off", t |-> "", si |-> 1, created |-> FALSE,
          raised |-> FALSE]

----------------------------------------------------------------------------
(* Initial state: an empty backup root, no command running, and a live     *)
(* host on which each populated path is missing, a file or a directory.    *)

Init ==
    /\ clock = 0
    /\ live \in {l \in [LivePaths ->
                          {Absent, [kind |-> "file", data |-> Original],
                                   [kind |-> "dir",  data |-> Original]}] :
                    /\ \A p \in RegisteredPaths \ PopulatedPaths :
                          l[p] = Absent
                    /\ \A p \in UnregisteredPaths :
                          l[p] = [kind |-> "file", data |-> Original]}
    /\ root = [n \in {} |-> DirNode(EmptyTree)]
    /\ pc = "idle"
    /\ cmd = NoCmd
    /\ ts = ""
    /\ results = EmptyTree
    /\ info = NoInfo
    /\ si = 1
    /\ pi = 1
    /\ outcome = NoOutcome
    /\ log = <<>>
    /\ faults = 0
    /\ envWrites = 0
    /\ restores = 0
    /\ removed_count = 0
    /\ backups = <<>>
    /\ pending = {}
    /\ runs = [r \in Runs |-> NoRun]

----------------------------------------------------------------------------
(* The environment.                                                        *)

\* Between two commands somebody edits, replaces or deletes a live path.
\* (Before the backup the live state is already any state: see Init.  What
\* is written differs from what any backup holds.)
EnvWrite ==
    /\ pc = "idle"
    /\ clock > 0
    /\ envWrites < MaxEnvWrites
    /\ \E p \in PopulatedPaths, k \in {"absent", "file", "dir"} :
          /\ live' = [live EXCEPT ![p] =
                        IF k = "absent" THEN Absent
                        ELSE [kind |-> k, data |-> Edited]]
          /\ live' # live
    /\ envWrites' = envWrites + 1
    /\ UNCHANGED <<clock, root, pc, cmd, ts, results, info, si, pi, outcome,
                   log, faults, restores,
                   removed_count, backups, pending,
                   runs>>

\* An injected failure is counted against the budget.
CanFail == faults < MaxFaults

----------------------------------------------------------------------------
(* Returning from a component backup: to create_full_backup, which records *)
(* the outcome map or the caught exception and goes on, or to main, which  *)
(* prints the map, or dies of the uncaught exception.                      *)

\* Mutant: a component's exception is recorded as an empty outcome map.
ErrorMapEmpty == EmptyTree

\* lines 268-270, 276-278, 284-286: {'error': str(e)}
ErrorMap == [k \in {"error"} |-> "error"]

\* Mutant: the first component's end leads past the database backup.
NextComponentSkipping(comp) ==
    CASE comp = "configurations" -> "mon_mkdir"
      [] comp = "databases"      -> "mon_mkdir"
      [] comp = "monitoring"     -> "full_meta"

\* lines 264-286: the order of the component backups in create_full_backup
NextComponent(comp) ==
    CASE comp = "configurations" -> "db_mkdir"
      [] comp = "databases"      -> "mon_mkdir"
      [] comp = "monitoring"     -> "full_meta"

\* Mutant: create_full_backup does not catch a component's exception.
ComponentEndsUncaught(comp, res, raised, events) ==
    /\ log' = log \o events \o
                 << <<IF raised THEN "raised" ELSE "returned", comp>> >>
    /\ IF cmd.name = "full" /\ ~raised
       THEN /\ info' = [info EXCEPT !.results = Put(@, comp, res)]
            /\ pc' = NextComponent(comp)
            /\ outcome' = outcome
       ELSE /\ info' = info
            /\ pc' = "done"
            /\ outcome' = [ret |-> res, raised |-> raised,
                           exit |-> IF raised THEN 1 ELSE 0]

ComponentEnds(comp, res, raised, events) ==
    /\ log' = log \o events \o
                 << <<IF raised THEN "raised" ELSE "returned", comp>> >>
    /\ IF cmd.name = "full"
       THEN /\ info' = [info EXCEPT !.results =
                          Put(@, comp, IF raised THEN ErrorMap ELSE res)]
            /\ pc' = NextComponent(comp)
            /\ outcome' = outcome
       ELSE /\ info' = info
            /\ pc' = "done"
            /\ outcome' = [ret |-> res, raised |-> raised,
                           exit |-> IF raised THEN 1 ELSE 0]

----------------------------------------------------------------------------
(* backup_configurations                                                   *)

\* Mutant: the outcome is keyed by the service alone.
ConfigKeyByService(service, path) == service

\* f"{service}_{source_path.name}"
ConfigKey(service, path) == service \o "_" \o PathName(path)

\* where a path is staged, relative to the staging directory
StagedAt(service, path) == service \o "/" \o PathName(path)

CfgStaging == StagingName("config", ts)

\* main: backup --type config
StartConfigBackup ==
    /\ pc = "idle"
    /\ clock + 1 \in BackupSeconds
    /\ clock' = clock + 1
    /\ ts' = create_timestamp(clock')
    /\ cmd' = [name |-> "config", arg |-> ""]
    /\ pc' = "cfg_mkdir"
    /\ UNCHANGED <<live, root, results, info, si, pi, outcome, log, faults,
                   envWrites,
                   restores,
                   removed_count, backups, pending,
                   runs>>

\* main: backup --type config, run again within the second of the backup
\* before it: create_timestamp gives the same timestamp
StartConfigBackupAgain ==
    /\ pc = "idle"
    /\ clock \in BackupSeconds
    /\ ts' = create_timestamp(clock)
    /\ cmd' = [name |-> "config", arg |-> ""]
    /\ pc' = "cfg_mkdir"
    /\ UNCHANGED <<clock, live, root, results, info, si, pi, outcome, log,
                   faults, envWrites, restores, removed_count, backups,
                   pending,
                   runs>>

\* lines 64-67: make the staging directory, start with no results
CfgMkdir ==
    /\ pc = "cfg_mkdir"
    /\ root' = MkdirExistOk(root, CfgStaging)
    /\ results' = EmptyTree
    /\ si' = 1
    /\ pi' = 1
    /\ log' = Append(log, <<"begin", "configurations">>)
    /\ pc' = "cfg_service"
    /\ UNCHANGED <<clock, live, cmd, ts, info, outcome, faults, envWrites,
                   restores,
                   removed_count, backups, pending,
                   runs>>

\* lines 69-73: next service of the registry, and its staging subdirectory
CfgService ==
    /\ pc = "cfg_service"
    /\ IF si > Len(config_paths)
       THEN /\ pc' = "cfg_archive"
            /\ root' = root
       ELSE /\ pc' = "cfg_path"
            /\ root' = [root EXCEPT ![CfgStaging].body =
                          IF config_paths[si].service \in DOMAIN @ THEN @
                          ELSE TreePut(@, config_paths[si].service, MadeDir)]
    /\ pi' = 1
    /\ UNCHANGED <<clock, live, cmd, ts, results, info, si, outcome, log,
                   faults, envWrites,
                   restores,
                   removed_count, backups, pending,
                   runs>>

\* Mutant: a missing source path is not noticed.
SourceExistsAlways(e) == TRUE

\* line 77: source_path.exists()
SourceExists(e) == e # Absent

\* Mutant: a copy failure is swallowed without an outcome for the path.
CopyErrorUnrecorded(res, key) == res

\* lines 83-85, 90-92: the except branches record the error under the key
CopyErrorRecorded(res, key) == Put(res, key, "error")

\* lines 75-95: one path of the service: copy it, or record why not
CfgPath ==
    /\ pc = "cfg_path"
    /\ IF pi > Len(config_paths[si].paths)
       THEN /\ si' = si + 1
            /\ pi' = 1
            /\ pc' = "cfg_service"
            /\ UNCHANGED <<root, results, faults>>
       ELSE LET service == config_paths[si].service
                path    == config_paths[si].paths[pi]
                key     == ConfigKey(service, path)
                dest    == StagedAt(service, path)
            IN  /\ pi' = pi + 1
                /\ si' = si
                /\ pc' = "cfg_path"
                /\ IF ~SourceExists(live[path])
                   THEN /\ results' = Put(results, key, "path_not_found")
                        /\ UNCHANGED <<root, faults>>
                   ELSE \/ /\ results' = Put(results, key, "success")
                           /\ root' = [root EXCEPT ![CfgStaging].body =
                                         TreePut(@, dest, live[path])]
                           /\ faults' = faults
                        \/ /\ CanFail
                           /\ faults' = faults + 1
                           /\ results' = CopyErrorRecorded(results, key)
                           /\ \/ root' = root
                              \/ root' = [root EXCEPT ![CfgStaging].body =
                                            TreePut(@, dest,
                                               [live[path] EXCEPT !.data = Torn])]
    /\ UNCHANGED <<clock, live, cmd, ts, info, outcome, log, envWrites,
                   restores,
                   removed_count, backups, pending,
                   runs>>

\* lines 97-100: write the archive; an error here is not caught
CfgArchive ==
    /\ pc = "cfg_archive"
    /\ \/ /\ root' = WriteArchive(root, ArchiveName("config", ts),
                         TarNode(Rooted(root[CfgStaging].body, CfgStaging)))
          /\ pc' = "cfg_rmtree"
          /\ UNCHANGED <<faults, info, outcome, log>>
       \/ /\ CanFail
          /\ faults' = faults + 1
          /\ \/ root' = root
             \/ root' = WriteArchive(root, ArchiveName("config", ts), TornTar)
          /\ ComponentEnds("configurations", EmptyTree, TRUE, <<>>)
    /\ UNCHANGED <<clock, live, cmd, ts, results, si, pi, envWrites,
                   restores,
                   removed_count, backups, pending,
                   runs>>

\* lines 102-106: remove the staging directory and return the results
CfgRmtree ==
    /\ pc = "cfg_rmtree"
    /\ root' = Remove(root, CfgStaging)
    /\ ComponentEnds("configurations", results, FALSE, <<>>)
    /\ UNCHANGED <<clock, live, cmd, ts, results, si, pi, faults, envWrites,
                   restores,
                   removed_count, backups, pending,
                   runs>>

----------------------------------------------------------------------------
(* restore_configuration                                                   *)

\* what the restore commands can be asked for: --service is absent (""),
\* a service owning a populated path, or a name the registry does not have
ServiceArgs ==
    {""} \cup {config_paths[k].service : k \in
                 {n \in 1..Len(config_paths) :
                    \E m \in 1..Len(config_paths[n].paths) :
                       config_paths[n].paths[m] \in PopulatedPaths}}
         \cup {"nosuch"}

\* Mutant: the archive is taken to be there.
ArchiveFoundAlways(type, t) == TRUE

\* lines 326, 392: config_archive.exists(), db_archive.exists()
ArchiveFound(type, t) == Exists(ArchiveName(type, t))

\* Mutant: a restore that failed reports success.
RestoreEndsTrue(ok) ==
    /\ pc' = "done"
    /\ outcome' = [ret |-> TRUE, raised |-> FALSE, exit |-> 0]

\* A restore returns to main, which exits 0 on True and 1 on False.
RestoreEnds(ok) ==
    /\ pc' = "done"
    /\ outcome' = [ret |-> ok, raised |-> FALSE, exit |-> IF ok THEN 0 ELSE 1]

\* Mutant: the restore goes on to the step `next` after a failed extraction.
ExtractionFailureIgnored(next) ==
    /\ pc' = next
    /\ outcome' = outcome

\* lines 382-384, 434-436: an exception of mkdir or extractall is caught,
\* logged, and the restore returns False instead of going on to `next`
ExtractionFailed(next) == RestoreEnds(FALSE)

RcTemp == TempRestoreName(ts)

\* temp_dir / f"config_{timestamp}" / service / Path(path).name
RcSource(service, path) ==
    LET rel == StagingName("config", ts) \o "/" \o StagedAt(service, path)
    IN  IF Exists(RcTemp) /\ rel \in DOMAIN root[RcTemp].body
        THEN root[RcTemp].body[rel]
        ELSE Absent

\* Mutant: the named service's directory is taken to be there.
RcServiceDirExistsAlways(service) == TRUE

\* service_dir.exists()
RcServiceDirExists(service) ==
    (StagingName("config", ts) \o "/" \o service) \in DOMAIN root[RcTemp].body

\* Mutant: a path that is not in the extracted tree is restored all the same.
SourceStagedAlways(src) == TRUE

\* lines 346, 363: source.exists()
SourceStaged(src) == src # Absent

\* The effect of one filesystem call on the live destination: the entry
\* left there, whether the call raised, and whether that was an injected
\* I/O failure (the other errors are raised by the call's own checks).
Effect(e, raised, fault) == [entry |-> e, raised |-> raised, fault |-> fault]

\* shutil.rmtree(path) / Path(path).unlink()
RemoveLive(dst) ==
    {Effect(Absent, FALSE, FALSE), Effect(dst, TRUE, TRUE)}
    \cup (IF dst.kind = "dir"
          THEN {Effect([dst EXCEPT !.data = Torn], TRUE, TRUE)} ELSE {})

\* Mutant: a copy that fails has written the whole tree all the same.
CopyTreeCompleting(src, dst) ==
    IF src.kind # "dir" THEN {Effect(dst, TRUE, FALSE)}
    ELSE {Effect(src, FALSE, FALSE), Effect(src, TRUE, TRUE)}

\* shutil.copytree(source, path): source must be a directory
CopyTree(src, dst) ==
    IF src.kind # "dir" THEN {Effect(dst, TRUE, FALSE)}
    ELSE {Effect(src, FALSE, FALSE), Effect(dst, TRUE, TRUE),
          Effect([src EXCEPT !.data = Torn], TRUE, TRUE)}

\* shutil.copy2(source, path): source must be a file
Copy2(src, dst) ==
    IF src.kind # "file" THEN {Effect(dst, TRUE, FALSE)}
    ELSE {Effect(src, FALSE, FALSE), Effect(dst, TRUE, TRUE),
          Effect([src EXCEPT !.data = Torn], TRUE, TRUE)}

\* g after f, unless f raised
Then(first, second(_)) ==
    UNION {IF a.raised THEN {a}
           ELSE {Effect(b.entry, b.raised, a.fault \/ b.fault) :
                    b \in second(a.entry)}
           : a \in first}

\* lines 348-352: the replacement of one live path, a service being named
ReplaceNamed(src, dst) ==
    IF dst.kind = "dir"
    THEN LET copy(d) == CopyTree(src, d) IN Then(RemoveLive(dst), copy)
    ELSE Copy2(src, dst)

\* lines 365-374: the replacement of one live path, no service being named
ReplaceAll(src, dst) ==
    LET copy(d) == IF src.kind = "dir" THEN CopyTree(src, d) ELSE Copy2(src, d)
    IN  IF dst # Absent THEN Then(RemoveLive(dst), copy) ELSE copy(dst)

\* main: restore <timestamp> --type config [--service NAME], and
\* lines 324-328: no archive of that timestamp: fail
StartRestoreConfig ==
    /\ pc = "idle"
    /\ restores < MaxRestores
    /\ restores' = restores + 1
    /\ \E t \in Timestamps, s \in ServiceArgs :
          /\ ts' = t
          /\ cmd' = [name |-> "restore_config", arg |-> s]
          /\ IF ArchiveFound("config", t)
             THEN pc' = "rc_extract" /\ outcome' = outcome
             ELSE RestoreEnds(FALSE)
    /\ UNCHANGED <<clock, live, root, results, info, si, pi, log, faults,
                   envWrites,
                   removed_count, backups, pending,
                   runs>>

\* lines 330-338: make the staging directory and extract the archive into
\* it; a truncated archive, or a failing extraction, raises
RcExtract ==
    /\ pc = "rc_extract"
    /\ LET made == MkdirExistOk(root, RcTemp)
           full == [made EXCEPT ![RcTemp].body =
                      Extracted(@, root[ArchiveName("config", ts)].body)]
       IN  IF root[ArchiveName("config", ts)].torn
           THEN /\ root' = made
                /\ faults' = faults
                /\ ExtractionFailed("rc_select")
           ELSE \/ /\ root' = full
                   /\ faults' = faults
                   /\ pc' = "rc_select"
                   /\ outcome' = outcome
                \/ /\ CanFail
                   /\ faults' = faults + 1
                   /\ root' \in {made, full}
                   /\ ExtractionFailed("rc_select")
    /\ log' = Append(log, <<"extracted", "configurations">>)
    /\ UNCHANGED <<clock, live, cmd, ts, results, info, si, pi, envWrites,
                   restores,
                   removed_count, backups, pending,
                   runs>>

\* Mutant: a named service is restored as if none had been named.
RestoreBranchAll(service) == "rc_all"

\* lines 340, 356: if service: ... else: ...
RestoreBranch(service) == IF service # "" THEN "rc_named" ELSE "rc_all"

\* lines 340-343, 353-358: the named service's directory must be in the
\* extracted tree; without a name, go through the registry
RcSelect ==
    /\ pc = "rc_select"
    /\ IF cmd.arg # "" /\ ~RcServiceDirExists(cmd.arg)
       THEN RestoreEnds(FALSE)
       ELSE /\ pc' = RestoreBranch(cmd.arg)
            /\ outcome' = outcome
    /\ si' = 1
    /\ pi' = 1
    /\ UNCHANGED <<clock, live, root, cmd, ts, results, info, log, faults,
                   envWrites,
                   restores,
                   removed_count, backups, pending,
                   runs>>

\* lines 344-352: next path of the named service
RcNamed ==
    /\ pc = "rc_named"
    /\ IF pi > Len(PathsOf(cmd.arg))
       THEN /\ pc' = "rc_cleanup"
            /\ UNCHANGED <<live, pi, outcome, faults>>
       ELSE LET path == PathsOf(cmd.arg)[pi]
                src  == RcSource(cmd.arg, path)
            IN  IF ~SourceStaged(src)
                THEN /\ pi' = pi + 1
                     /\ UNCHANGED <<live, pc, outcome, faults>>
                ELSE \E o \in ReplaceNamed(src, live[path]) :
                        /\ o.fault => CanFail
                        /\ faults' = IF o.fault THEN faults + 1 ELSE faults
                        /\ live' = [live EXCEPT ![path] = o.entry]
                        /\ IF o.raised
                           THEN RestoreEnds(FALSE) /\ pi' = pi
                           ELSE /\ pi' = pi + 1
                                /\ UNCHANGED <<pc, outcome>>
    /\ UNCHANGED <<clock, root, cmd, ts, results, info, si, log, envWrites,
                   restores,
                   removed_count, backups, pending,
                   runs>>

\* lines 358-374: next path of the next service of the registry whose
\* directory is in the extracted tree
RcAll ==
    /\ pc = "rc_all"
    /\ IF si > Len(config_paths)
       THEN /\ pc' = "rc_cleanup"
            /\ UNCHANGED <<live, si, pi, outcome, faults>>
       ELSE IF \/ ~RcServiceDirExists(config_paths[si].service)
               \/ pi > Len(config_paths[si].paths)
       THEN /\ si' = si + 1
            /\ pi' = 1
            /\ UNCHANGED <<live, pc, outcome, faults>>
       ELSE LET path == config_paths[si].paths[pi]
                src  == RcSource(config_paths[si].service, path)
            IN  IF ~SourceStaged(src)
                THEN /\ pi' = pi + 1
                     /\ UNCHANGED <<live, pc, si, outcome, faults>>
                ELSE \E o \in ReplaceAll(src, live[path]) :
                        /\ o.fault => CanFail
                        /\ faults' = IF o.fault THEN faults + 1 ELSE faults
                        /\ live' = [live EXCEPT ![path] = o.entry]
                        /\ si' = si
                        /\ IF o.raised
                           THEN RestoreEnds(FALSE) /\ pi' = pi
                           ELSE /\ pi' = pi + 1
                                /\ UNCHANGED <<pc, outcome>>
    /\ UNCHANGED <<clock, root, cmd, ts, results, info, log, envWrites,
                   restores,
                   removed_count, backups, pending,
                   runs>>

\* lines 376-380: remove the staging directory, return True
RcCleanup ==
    /\ pc = "rc_cleanup"
    /\ root' = Remove(root, RcTemp)
    /\ RestoreEnds(TRUE)
    /\ UNCHANGED <<clock, live, cmd, ts, results, info, si, pi, log, faults,
                   envWrites,
                   restores,
                   removed_count, backups, pending,
                   runs>>

----------------------------------------------------------------------------
(* backup_databases                                                        *)

DbStaging == StagingName("database", ts)

\* db_backup_dir / f"{database}_{timestamp}.sql", and its compressed form
SqlName(db, t)   == db \o "_" \o t \o ".sql"
SqlGzName(db, t) == SqlName(db, t) \o ".gz"
GaleraName(t)    == "galera_cluster_info_" \o t \o ".txt"

FileOf(d) == [kind |-> "file", data |-> d]

\* main: backup --type database
StartDatabaseBackup ==
    /\ pc = "idle"
    /\ clock + 1 \in BackupSeconds
    /\ clock' = clock + 1
    /\ ts' = create_timestamp(clock')
    /\ cmd' = [name |-> "database", arg |-> ""]
    /\ pc' = "db_mkdir"
    /\ UNCHANGED <<live, root, results, info, si, pi, outcome, log, faults,
                   envWrites,
                   restores,
                   removed_count, backups, pending,
                   runs>>

\* lines 112-115: make the staging directory, start with no results
DbMkdir ==
    /\ pc = "db_mkdir"
    /\ root' = MkdirExistOk(root, DbStaging)
    /\ results' = EmptyTree
    /\ si' = 1
    /\ log' = Append(log, <<"begin", "databases">>)
    /\ pc' = "db_check"
    /\ UNCHANGED <<clock, live, cmd, ts, info, pi, outcome, faults, envWrites,
                   restores,
                   removed_count, backups, pending,
                   runs>>

\* Mutant: the exit code of is-active is ignored.
EngineActiveAlways(r) == TRUE

\* lines 119-121: the engine is usable when is-active exits 0
EngineActive(r) == r = "active"

\* lines 117-126: systemctl is-active mariadb; return at once unless the
\* engine is active (the check itself may raise)
DbCheck ==
    /\ pc = "db_check"
    /\ \E r \in {"active", "inactive", "raised"} :
          IF EngineActive(r)
          THEN /\ log' = Append(log, <<"is-active", r>>)
               /\ pc' = "db_dump"
               /\ UNCHANGED <<info, outcome>>
          ELSE ComponentEnds("databases",
                             IF r = "raised"
                             THEN [k \in {"database_check"} |-> "error"]
                             ELSE [k \in {"database_service"} |-> "not_running"],
                             FALSE, << <<"is-active", r>> >>)
    /\ UNCHANGED <<clock, live, root, cmd, ts, results, si, pi, faults,
                   envWrites, restores,
                   removed_count, backups, pending,
                   runs>>

\* Mutant: the exit code of mysqldump is ignored.
DumpOutcomeIgnoringExit(rc) == "success"

\* lines 147-164: what is recorded for a database, by how its dump ended
DumpOutcome(rc) ==
    CASE rc = "0" -> "success"
      [] rc = "1" -> "error"
      [] rc = "raised" -> "exception"

\* lines 144-154: what the dump leaves in the staging directory: the
\* compressed dump, or the uncompressed file it was writing
DumpLeaves(tree, db, rc) ==
    CASE rc = "0" -> TreePut(tree, SqlGzName(db, ts), FileOf("dump"))
      [] rc = "1" -> TreePut(tree, SqlName(db, ts), FileOf(Torn))
      [] rc = "raised" -> TreePut(tree, SqlName(db, ts), FileOf(""))

\* lines 129-164: dump the next database into the staging directory; on
\* exit code 0 compress the dump and delete it, otherwise record the error;
\* either way go on to the next database
DbDump ==
    /\ pc = "db_dump"
    /\ IF si > Len(db_databases)
       THEN /\ pc' = "db_galera"
            /\ UNCHANGED <<root, results, si, log, faults>>
       ELSE LET db == db_databases[si]
            IN  /\ si' = si + 1
                /\ pc' = "db_dump"
                /\ log' = Append(log, <<"mysqldump", db>>)
                /\ \E rc \in {"0", "1", "raised"} :
                      /\ rc # "0" => CanFail
                      /\ faults' = IF rc # "0" THEN faults + 1 ELSE faults
                      /\ results' = Put(results, db, DumpOutcome(rc))
                      /\ root' = [root EXCEPT ![DbStaging].body =
                                    DumpLeaves(@, db, rc)]
    /\ UNCHANGED <<clock, live, cmd, ts, info, pi, outcome, envWrites,
                   restores,
                   removed_count, backups, pending,
                   runs>>

\* Mutant: a failed status capture is recorded for every database too.
StatusCaptureFailedForAll(res, how) ==
    [k \in DOMAIN res \cup {"galera_cluster_info"} |-> how]

\* lines 179-183: the failure is recorded under galera_cluster_info
StatusCaptureFailed(res, how) == Put(res, "galera_cluster_info", how)

\* lines 166-183: the cluster status, an artifact of its own
DbGalera ==
    /\ pc = "db_galera"
    /\ \/ /\ results' = Put(results, "galera_cluster_info", "success")
          /\ root' = [root EXCEPT ![DbStaging].body =
                        TreePut(@, GaleraName(ts), FileOf("status"))]
          /\ faults' = faults
       \/ /\ CanFail
          /\ faults' = faults + 1
          /\ results' = StatusCaptureFailed(results, "error")
          /\ root' = [root EXCEPT ![DbStaging].body =
                        TreePut(@, GaleraName(ts), FileOf(Torn))]
       \/ /\ CanFail
          /\ faults' = faults + 1
          /\ results' = StatusCaptureFailed(results, "exception")
          /\ root' = root
    /\ pc' = "db_archive"
    /\ UNCHANGED <<clock, live, cmd, ts, info, si, pi, outcome, log, envWrites,
                   restores,
                   removed_count, backups, pending,
                   runs>>

\* lines 185-188: write the archive; an error here is not caught
DbArchive ==
    /\ pc = "db_archive"
    /\ \/ /\ root' = WriteArchive(root, ArchiveName("database", ts),
                         TarNode(Rooted(root[DbStaging].body, DbStaging)))
          /\ pc' = "db_rmtree"
          /\ UNCHANGED <<faults, info, outcome, log>>
       \/ /\ CanFail
          /\ faults' = faults + 1
          /\ \/ root' = root
             \/ root' = WriteArchive(root, ArchiveName("database", ts), TornTar)
          /\ ComponentEnds("databases", EmptyTree, TRUE, <<>>)
    /\ UNCHANGED <<clock, live, cmd, ts, results, si, pi, envWrites,
                   restores,
                   removed_count, backups, pending,
                   runs>>

\* lines 190-194: remove the staging directory and return the results
DbRmtree ==
    /\ pc = "db_rmtree"
    /\ root' = Remove(root, DbStaging)
    /\ ComponentEnds("databases", results, FALSE, <<>>)
    /\ UNCHANGED <<clock, live, cmd, ts, results, si, pi, faults, envWrites,
                   restores,
                   removed_count, backups, pending,
                   runs>>

----------------------------------------------------------------------------
(* restore_database                                                        *)

\* --database is absent (""), a configured database, or some other name
DatabaseArgs == {""} \cup {db_databases[k] : k \in 1..Len(db_databases)}
                     \cup {"nosuch"}

RdTemp == TempDbRestoreName(ts)

\* Mutant: the database named is ignored.
DatabasesToRestoreAll(database) == db_databases

\* line 406: [database] if database else self.db_config['databases']
DatabasesToRestore(database) ==
    IF database # "" THEN <<database>> ELSE db_databases

\* Mutant: a dump missing from the archive is not noticed.
RdSqlFileExistsAlways(db) == TRUE

\* sql_file.exists()
RdSqlFileExists(db) ==
    (DbStaging \o "/" \o SqlGzName(db, ts)) \in DOMAIN root[RdTemp].body

\* main: restore <timestamp> --type database [--database NAME], and
\* lines 390-394: no archive of that timestamp: fail
StartRestoreDatabase ==
    /\ pc = "idle"
    /\ restores < MaxRestores
    /\ restores' = restores + 1
    /\ \E t \in Timestamps, d \in DatabaseArgs :
          /\ ts' = t
          /\ cmd' = [name |-> "restore_database", arg |-> d]
          /\ IF ArchiveFound("database", t)
             THEN pc' = "rd_extract" /\ outcome' = outcome
             ELSE RestoreEnds(FALSE)
    /\ UNCHANGED <<clock, live, root, results, info, si, pi, log, faults,
                   envWrites,
                   removed_count, backups, pending,
                   runs>>

\* lines 396-406: make the staging directory and extract the archive
RdExtract ==
    /\ pc = "rd_extract"
    /\ LET made == MkdirExistOk(root, RdTemp)
           full == [made EXCEPT ![RdTemp].body =
                      Extracted(@, root[ArchiveName("database", ts)].body)]
       IN  IF root[ArchiveName("database", ts)].torn
           THEN /\ root' = made
                /\ faults' = faults
                /\ ExtractionFailed("rd_db")
           ELSE \/ /\ root' = full
                   /\ faults' = faults
                   /\ pc' = "rd_db"
                   /\ outcome' = outcome
                \/ /\ CanFail
                   /\ faults' = faults + 1
                   /\ root' \in {made, full}
                   /\ ExtractionFailed("rd_db")
    /\ si' = 1
    /\ log' = Append(log, <<"extracted", "databases">>)
    /\ UNCHANGED <<clock, live, cmd, ts, results, info, pi, envWrites,
                   restores,
                   removed_count, backups, pending,
                   runs>>

\* Mutant: the restore goes on after a failed database, as the backup does.
RestoreAbortsNever(rc) == FALSE

\* lines 419-423, 434-436: a restore command that exits non-zero, or an
\* exception, ends the restore
RestoreAborts(rc) == rc # "0"

\* lines 408-426: feed the next database's dump to mysql; a missing dump,
\* a non-zero exit code or an exception ends the restore with False
RdDb ==
    /\ pc = "rd_db"
    /\ LET todo == DatabasesToRestore(cmd.arg)
       IN  IF si > Len(todo)
           THEN /\ pc' = "rd_cleanup"
                /\ UNCHANGED <<si, outcome, log, faults>>
           ELSE IF ~RdSqlFileExists(todo[si])
           THEN /\ RestoreEnds(FALSE)
                /\ UNCHANGED <<si, log, faults>>
           ELSE \E rc \in {"0", "1", "raised"} :
                   /\ rc # "0" => CanFail
                   /\ faults' = IF rc # "0" THEN faults + 1 ELSE faults
                   /\ log' = Append(log, <<"mysql", todo[si], rc>>)
                   /\ IF RestoreAborts(rc)
                      THEN RestoreEnds(FALSE) /\ si' = si
                      ELSE si' = si + 1 /\ UNCHANGED <<pc, outcome>>
    /\ UNCHANGED <<clock, live, root, cmd, ts, results, info, pi, envWrites,
                   restores,
                   removed_count, backups, pending,
                   runs>>

\* lines 428-432: remove the staging directory, return True
RdCleanup ==
    /\ pc = "rd_cleanup"
    /\ root' = Remove(root, RdTemp)
    /\ RestoreEnds(TRUE)
    /\ UNCHANGED <<clock, live, cmd, ts, results, info, si, pi, log, faults,
                   envWrites,
                   restores,
                   removed_count, backups, pending,
                   runs>>

----------------------------------------------------------------------------
(* backup_monitoring_data                                                  *)

MonStaging == StagingName("monitoring", ts)

\* What one of the three collection blocks can do, each under its own
\* try/except: find nothing to copy, copy and record success, or fail and
\* record the error (a failed copytree may leave part of the copy).
\* `found` is the directory found, `key` the result key on success,
\* `errkey` the result key on failure.
Collected(tree, res, found, key, errkey) ==
    {[tree |-> tree, res |-> res, fault |-> FALSE],
     [tree |-> TreePut(tree, found, [kind |-> "dir", data |-> "data"]),
      res |-> Put(res, key, "success"), fault |-> FALSE],
     [tree |-> tree, res |-> Put(res, errkey, "error"), fault |-> TRUE],
     [tree |-> TreePut(tree, found, [kind |-> "dir", data |-> Torn]),
      res |-> Put(res, errkey, "error"), fault |-> TRUE]}

\* main: backup --type monitoring
StartMonitoringBackup ==
    /\ pc = "idle"
    /\ clock + 1 \in BackupSeconds
    /\ clock' = clock + 1
    /\ ts' = create_timestamp(clock')
    /\ cmd' = [name |-> "monitoring", arg |-> ""]
    /\ pc' = "mon_mkdir"
    /\ UNCHANGED <<live, root, results, info, si, pi, outcome, log, faults,
                   envWrites,
                   restores,
                   removed_count, backups, pending,
                   runs>>

\* lines 200-203: make the staging directory, start with no results
MonMkdir ==
    /\ pc = "mon_mkdir"
    /\ root' = MkdirExistOk(root, MonStaging)
    /\ results' = EmptyTree
    /\ log' = Append(log, <<"begin", "monitoring">>)
    /\ pc' = "mon_prometheus"
    /\ UNCHANGED <<clock, live, cmd, ts, info, si, pi, outcome, faults,
                   envWrites,
                   restores,
                   removed_count, backups, pending,
                   runs>>

MonCollect(found, key, errkey, next) ==
    /\ \E o \in Collected(root[MonStaging].body, results, found, key, errkey) :
          /\ o.fault => CanFail
          /\ faults' = IF o.fault THEN faults + 1 ELSE faults
          /\ root' = [root EXCEPT ![MonStaging].body = o.tree]
          /\ results' = o.res
    /\ pc' = next
    /\ UNCHANGED <<clock, live, cmd, ts, info, si, pi, outcome, log, envWrites,
                   restores,
                   removed_count, backups, pending,
                   runs>>

\* lines 205-215: the Prometheus volumes under /var/lib/docker/volumes
MonPrometheus ==
    /\ pc = "mon_prometheus"
    /\ MonCollect("prometheus_data", "prometheus_volume_prometheus_data",
                  "prometheus_data", "mon_grafana")

\* lines 217-226: the Grafana volumes
MonGrafana ==
    /\ pc = "mon_grafana"
    /\ MonCollect("grafana_data", "grafana_volume_grafana_data",
                  "grafana_data", "mon_dashboards")

\* lines 228-240: the dashboard files, into grafana_export
MonDashboards ==
    /\ pc = "mon_dashboards"
    /\ MonCollect("grafana_export", "grafana_dashboards",
                  "grafana_dashboards", "mon_archive")

\* lines 242-245: write the archive; an error here is not caught
MonArchive ==
    /\ pc = "mon_archive"
    /\ \/ /\ root' = WriteArchive(root, ArchiveName("monitoring", ts),
                         TarNode(Rooted(root[MonStaging].body, MonStaging)))
          /\ pc' = "mon_rmtree"
          /\ UNCHANGED <<faults, info, outcome, log>>
       \/ /\ CanFail
          /\ faults' = faults + 1
          /\ \/ root' = root
             \/ root' = WriteArchive(root, ArchiveName("monitoring", ts), TornTar)
          /\ ComponentEnds("monitoring", EmptyTree, TRUE, <<>>)
    /\ UNCHANGED <<clock, live, cmd, ts, results, si, pi, envWrites,
                   restores,
                   removed_count, backups, pending,
                   runs>>

\* lines 247-250: remove the staging directory and return the results
MonRmtree ==
    /\ pc = "mon_rmtree"
    /\ root' = Remove(root, MonStaging)
    /\ ComponentEnds("monitoring", results, FALSE, <<>>)
    /\ UNCHANGED <<clock, live, cmd, ts, results, si, pi, faults, envWrites,
                   restores,
                   removed_count, backups, pending,
                   runs>>

----------------------------------------------------------------------------
(* create_full_backup                                                      *)

\* Mutant: the record does not say what kind of backup it is of.
BackupInfoUntyped(t) ==
    [timestamp |-> t, backup_type |-> "", results |-> EmptyTree]

\* lines 257-262: backup_info (the hostname is not modelled)
BackupInfo(t) ==
    [timestamp |-> t, backup_type |-> "full", results |-> EmptyTree]

\* main: backup --type full; lines 254-262
StartFullBackup ==
    /\ pc = "idle"
    /\ clock + 1 \in BackupSeconds
    /\ clock' = clock + 1
    /\ ts' = create_timestamp(clock')
    /\ cmd' = [name |-> "full", arg |-> ""]
    /\ info' = BackupInfo(ts')
    /\ pc' = "cfg_mkdir"
    /\ UNCHANGED <<live, root, results, si, pi, outcome, log, faults,
                   envWrites,
                   restores,
                   removed_count, backups, pending,
                   runs>>

\* lines 288-294: write the metadata record and return it
FullMetadata ==
    /\ pc = "full_meta"
    /\ root' = Put(root, MetadataName(ts), JsonNode(info))
    /\ log' = Append(log, <<"metadata", ts>>)
    /\ pc' = "done"
    /\ outcome' = [ret |-> info, raised |-> FALSE, exit |-> 0]
    /\ UNCHANGED <<clock, live, cmd, ts, results, info, si, pi, faults,
                   envWrites,
                   restores,
                   removed_count, backups, pending,
                   runs>>

----------------------------------------------------------------------------
(* The catalogue: list_backups and cleanup_old_backups.                    *)

\* datetime.timedelta(days=1), in seconds of the clock
Day == 86400

\* 1024 * 1024 bytes
MiB == 1048576

ArchiveTypes == {"config", "database", "monitoring"}

\* the seconds of the earlier runs and every timestamp a file can carry
OldSeconds == 1..MaxOldRuns
AllTimestamps == Timestamps \cup {create_timestamp(c) : c \in OldSeconds}

\* glob("*backup_*.tar.gz"): the archives under the backup root
GlobArchives(fs) == {n \in DOMAIN fs : fs[n].kind = "tar"}

\* glob("backup_metadata_*.json"): the metadata records
GlobMetadata(fs) == {n \in DOMAIN fs : fs[n].kind = "json"}

\* the type and timestamp an archive name is made of
ArchiveParts(name) ==
    CHOOSE tt \in ArchiveTypes \X AllTimestamps :
        ArchiveName(tt[1], tt[2]) = name

\* lines 454-456: name.replace('backup_', 'metadata_')
\*                    .replace('.tar.gz', '.json')
\* applied to {type}_backup_{timestamp}.tar.gz
DerivedMetadataName(name) ==
    ArchiveParts(name)[1] \o "_metadata_" \o ArchiveParts(name)[2] \o ".json"

\* --keep-days
KeepDaysArgs == 0..MaxDays

\* line 442: now - timedelta(days=keep_days); no time passes while the
\* command runs
cutoff_date == clock - cmd.arg * Day

\* Time passes between two commands.
TimePasses ==
    /\ pc = "idle"
    /\ clock < MaxDays * Day
    /\ clock' = clock + Day
    /\ UNCHANGED <<live, root, pc, cmd, ts, results, info, si, pi, outcome,
                   log, faults, envWrites, restores, removed_count, backups,
                   pending,
                   runs>>

\* main: cleanup --keep-days N; lines 442-445
StartCleanup ==
    /\ pc = "idle"
    /\ \E keep_days \in KeepDaysArgs :
          cmd' = [name |-> "cleanup", arg |-> keep_days]
    /\ removed_count' = 0
    /\ pending' = GlobArchives(root)
    /\ pc' = "cl_file"
    /\ UNCHANGED <<clock, live, root, ts, results, info, si, pi, outcome,
                   log, faults, envWrites, restores, backups,
                   runs>>

\* Mutant: an archive as old as the cutoff is swept too.
IsOldOrAtCutoff(file_time, cutoff) == file_time <= cutoff

\* line 448: file_time < cutoff_date
IsOld(file_time, cutoff) == file_time < cutoff

\* lines 445-458: one file of the glob, in whatever order the directory
\* gives them: an old archive is unlinked and counted, and the metadata file
\* of the derived name is unlinked if there is one; an unlink that fails is
\* not caught.  Lines 460-461, 538-540 when the glob is exhausted.
CleanupFile ==
    /\ pc = "cl_file"
    /\ IF pending = {}
       THEN /\ pc' = "done"
            /\ outcome' = [ret |-> removed_count, raised |-> FALSE,
                           exit |-> 0]
            /\ UNCHANGED <<root, removed_count, pending, faults>>
       ELSE \E f \in pending :
            /\ pending' = pending \ {f}
            /\ IF ~IsOld(root[f].mtime, cutoff_date)
               THEN /\ pc' = "cl_file"
                    /\ UNCHANGED <<root, removed_count, outcome, faults>>
               ELSE \/ /\ root' = Remove(Remove(root, f),
                                         DerivedMetadataName(f))
                       /\ removed_count' = removed_count + 1
                       /\ pc' = "cl_file"
                       /\ UNCHANGED <<outcome, faults>>
                    \/ /\ CanFail
                       /\ faults' = faults + 1
                       /\ pc' = "done"
                       /\ outcome' = [ret |-> removed_count, raised |-> TRUE,
                                      exit |-> 1]
                       /\ UNCHANGED <<root, removed_count>>
    /\ UNCHANGED <<clock, live, cmd, ts, results, info, si, pi, log,
                   envWrites, restores, backups,
                   runs>>

\* main: list; lines 298-300
StartList ==
    /\ pc = "idle"
    /\ cmd' = [name |-> "list", arg |-> ""]
    /\ backups' = <<>>
    /\ pending' = GlobMetadata(root)
    /\ pc' = "ls_file"
    /\ UNCHANGED <<clock, live, root, ts, results, info, si, pi, outcome,
                   log, faults, envWrites, restores, removed_count,
                   runs>>

\* lines 302-306: json.load succeeds and the record has a 'timestamp'
Readable(node) == ~node.torn /\ "timestamp" \in DOMAIN node.body

\* the second a timestamp was formatted from: the format is fixed-width, so
\* the order of the strings is the order of the seconds
SecondOf(t) == CHOOSE c \in 0..9 : create_timestamp(c) = t

\* a record goes behind every record that is not older than it
RECURSIVE InsertDesc(_, _)
InsertDesc(sorted, e) ==
    IF sorted = <<>> THEN <<e>>
    ELSE IF SecondOf(sorted[1].timestamp) >= SecondOf(e.timestamp)
         THEN <<sorted[1]>> \o InsertDesc(Tail(sorted), e)
         ELSE <<e>> \o sorted

RECURSIVE SortedDescFrom(_, _)
SortedDescFrom(seq, k) ==
    IF k = 0 THEN <<>>
    ELSE InsertDesc(SortedDescFrom(seq, k - 1), seq[k])

\* Mutant: the records are returned in the order they were read.
Unsorted(seq) == seq

\* line 318: sorted(backups, key=lambda x: x['timestamp'], reverse=True)
\* (a stable sort)
SortedDesc(seq) == SortedDescFrom(seq, Len(seq))

\* backup_file.stat().st_size, in bytes.  What a file weighs is the
\* host's business: a metadata record is small, an archive grows with the
\* number of its members, a truncated file is what was written of it.
st_size(node) ==
    CASE node.kind = "json" -> IF node.torn THEN 100 ELSE 700
      [] node.kind = "tar"  -> IF node.torn THEN 4096
                               ELSE 1000000 +
                                    100000 * Cardinality(DOMAIN node.body)
      [] OTHER -> 4096

\* Mutant: every file of the backup root is matched.
GlobTimestampAll(fs, t) == DOMAIN fs

\* line 309: glob(f"*_{timestamp}.*"): the names that end in the timestamp
\* followed by a suffix, which here are the archives and the metadata
\* record of that timestamp (a staging directory has no suffix)
GlobTimestamp(fs, t) ==
    ({MetadataName(t)} \cup {ArchiveName(type, t) : type \in ArchiveTypes})
       \cap DOMAIN fs

\* lines 307-310: total_size += backup_file.stat().st_size
RECURSIVE SumSizes(_, _)
SumSizes(fs, names) ==
    IF names = {} THEN 0
    ELSE LET n == CHOOSE x \in names : TRUE
         IN  st_size(fs[n]) + SumSizes(fs, names \ {n})

\* round(x, 2) of Python for x = bytes / unit, as a number of hundredths:
\* to the nearest hundredth, a tie going to the even one
RoundHundredths(bytes, unit) ==
    LET q == (100 * bytes) \div unit
        r == (100 * bytes) % unit
    IN  IF 2 * r > unit THEN q + 1
        ELSE IF 2 * r < unit THEN q
        ELSE IF q % 2 = 0 THEN q ELSE q + 1

\* line 312: round(total_size / (1024 * 1024), 2), in hundredths of a MiB
total_size_mb(fs, t) ==
    RoundHundredths(SumSizes(fs, GlobTimestamp(fs, t)), MiB)

\* lines 300-318, 526-536: one metadata file of the glob, in whatever order
\* the directory gives them: a record that can be read gets its total size
\* and is appended, one that cannot is logged and skipped; when the glob is
\* exhausted the records are sorted, returned and printed.
ListFile ==
    /\ pc = "ls_file"
    /\ IF pending = {}
       THEN /\ pc' = "done"
            /\ outcome' = [ret |-> SortedDesc(backups), raised |-> FALSE,
                           exit |-> 0]
            /\ UNCHANGED <<backups, pending>>
       ELSE \E f \in pending :
            /\ pending' = pending \ {f}
            /\ backups' = IF Readable(root[f])
                          THEN Append(backups,
                                  Put(root[f].body, "total_size_mb",
                                      total_size_mb(root,
                                                    root[f].body.timestamp)))
                          ELSE backups
            /\ pc' = "ls_file"
            /\ outcome' = outcome
    /\ UNCHANGED <<clock, live, root, cmd, ts, results, info, si, pi, log,
                   faults, envWrites, restores, removed_count,
                   runs>>

----------------------------------------------------------------------------
(* A catalogue left by earlier runs.                                       *)

\* What an earlier run of the tool can have left under the backup root for
\* its timestamp: nothing; the archive of a configuration backup; the
\* record and the archives of a full backup that found the engine down (no
\* database archive); the record alone of a full backup whose archive steps
\* all failed, intact, later truncated, or stripped of its timestamp.
OldRunKinds ==
    {[archives |-> {},                       meta |-> "none"],
     [archives |-> {"config"},               meta |-> "none"],
     [archives |-> {"config", "monitoring"}, meta |-> "good"],
     [archives |-> {},                       meta |-> "good"],
     [archives |-> {},                       meta |-> "torn"],
     [archives |-> {},                       meta |-> "no_timestamp"]}

\* every key of backup_configurations' outcome map
ConfigKeys ==
    UNION {{ConfigKey(config_paths[n].service, config_paths[n].paths[m]) :
               m \in 1..Len(config_paths[n].paths)} :
           n \in 1..Len(config_paths)}

\* what such a run staged on a host without configuration paths and
\* monitoring volumes, and the outcome map it returned
OldTree(type, t) ==
    CASE type = "config" -> [s \in Services |-> MadeDir]
      [] type = "monitoring" -> EmptyTree

OldResults(type, kind) ==
    IF kind.archives = {} THEN ErrorMap
    ELSE CASE type = "config" -> [key \in ConfigKeys |-> "path_not_found"]
           [] type = "database" ->
                 [key \in {"database_service"} |-> "not_running"]
           [] type = "monitoring" -> EmptyTree

OldInfo(kind, t) ==
    [timestamp |-> t, backup_type |-> "full",
     results |-> [c \in {"configurations", "databases", "monitoring"} |->
                    OldResults(CASE c = "configurations" -> "config"
                                 [] c = "databases" -> "database"
                                 [] c = "monitoring" -> "monitoring",
                               kind)]]

OldMetadata(kind, t) ==
    CASE kind.meta = "good" -> JsonNode(OldInfo(kind, t))
      [] kind.meta = "torn" ->
            [kind |-> "json", body |-> EmptyTree, torn |-> TRUE]
      [] kind.meta = "no_timestamp" ->
            JsonNode([backup_type |-> "full",
                      results |-> OldInfo(kind, t).results])

\* the files of the run of second c, of the given kind
OldFiles(c, kind) ==
    LET t == create_timestamp(c)
        names == {ArchiveName(type, t) : type \in kind.archives}
                 \cup (IF kind.meta = "none" THEN {} ELSE {MetadataName(t)})
    IN  [n \in names |->
            IF n = MetadataName(t) THEN OldMetadata(kind, t)
            ELSE LET type == CHOOSE y \in kind.archives : ArchiveName(y, t) = n
                 IN  [kind |-> "tar",
                      body |-> Rooted(OldTree(type, t), StagingName(type, t)),
                      torn |-> FALSE, mtime |-> c]]

\* the backup root after the runs of seconds 1..MaxOldRuns
OldRoot(kinds) ==
    LET owner(n) == CHOOSE c \in OldSeconds : n \in DOMAIN OldFiles(c, kinds[c])
    IN  [n \in UNION {DOMAIN OldFiles(c, kinds[c]) : c \in OldSeconds} |->
            OldFiles(owner(n), kinds[owner(n)])[n]]

\* The tool is started on a host whose backup root holds what earlier runs
\* left; the last of them has just ended.
InitCatalog ==
    /\ clock = MaxOldRuns
    /\ live = [p \in LivePaths |->
                 IF p \in RegisteredPaths THEN Absent
                 ELSE [kind |-> "file", data |-> Original]]
    /\ \E kinds \in [OldSeconds -> OldRunKinds] : root = OldRoot(kinds)
    /\ pc = "idle"
    /\ cmd = NoCmd
    /\ ts = ""
    /\ results = EmptyTree
    /\ info = NoInfo
    /\ si = 1
    /\ pi = 1
    /\ outcome = NoOutcome
    /\ log = <<>>
    /\ faults = 0
    /\ envWrites = 0
    /\ restores = 0
    /\ removed_count = 0
    /\ backups = <<>>
    /\ pending = {}
    /\ runs = [r \in Runs |-> NoRun]

----------------------------------------------------------------------------
(* Two invocations of `backup --type config` running at once.  Nothing in  *)
(* the tool locks the backup root: each invocation goes through            *)
(* backup_configurations on its own, one filesystem call after the other,  *)
(* and the calls of the two interleave in any order.                       *)

\* the timestamps the two invocations can draw: the same second or not
RaceTimestamps == {create_timestamp(1), create_timestamp(2)}

RunStaging(r) == StagingName("config", runs[r].t)

\* the invocation has made (or found) its staging directory and has not
\* yet removed it or died
RunUsesStaging(r) == runs[r].pc \in {"stage", "archive", "rmtree"}

\* lines 69-95 for one service: its staging subdirectory is made, with the
\* staging directory if that is gone (parents=True), and each of its paths
\* that exists is copied under it
StagedService(fs, staging, n) ==
    LET service == config_paths[n].service
        base    == MkdirExistOk(fs, staging)
        found   == {m \in 1..Len(config_paths[n].paths) :
                       live[config_paths[n].paths[m]] # Absent}
        dests   == {StagedAt(service, config_paths[n].paths[m]) : m \in found}
        old     == base[staging].body
    IN  [base EXCEPT ![staging].body =
            [k \in DOMAIN old \cup {service} \cup dests |->
                IF k \in dests
                THEN live[config_paths[n].paths[
                        CHOOSE m \in found :
                           StagedAt(service, config_paths[n].paths[m]) = k]]
                ELSE IF k \in DOMAIN old THEN old[k] ELSE MadeDir]]

\* main: backup --type config; line 501
RunStart(r) ==
    /\ runs[r].pc = "off"
    /\ \E t \in RaceTimestamps :
          runs' = [runs EXCEPT ![r] = [NoRun EXCEPT !.pc = "mkdir", !.t = t]]
    /\ UNCHANGED <<root, mainVars>>

\* lines 64-65: mkdir(parents=True, exist_ok=True); the invocation that
\* finds no directory of that name creates it
RunMkdir(r) ==
    /\ runs[r].pc = "mkdir"
    /\ root' = MkdirExistOk(root, RunStaging(r))
    /\ runs' = [runs EXCEPT ![r].pc = "stage",
                            ![r].created = ~Exists(RunStaging(r))]
    /\ UNCHANGED mainVars

\* lines 69-95: the next service of the registry
RunService(r) ==
    /\ runs[r].pc = "stage"
    /\ IF runs[r].si > Len(config_paths)
       THEN /\ runs' = [runs EXCEPT ![r].pc = "archive"]
            /\ root' = root
       ELSE /\ root' = StagedService(root, RunStaging(r), runs[r].si)
            /\ runs' = [runs EXCEPT ![r].si = @ + 1]
    /\ UNCHANGED mainVars

\* lines 97-100: tar.add raises if the staging directory is gone
RunArchive(r) ==
    /\ runs[r].pc = "archive"
    /\ IF Exists(RunStaging(r))
       THEN /\ root' = WriteArchive(root, ArchiveName("config", runs[r].t),
                           TarNode(Rooted(root[RunStaging(r)].body,
                                          RunStaging(r))))
            /\ runs' = [runs EXCEPT ![r].pc = "rmtree"]
       ELSE /\ root' = root
            /\ runs' = [runs EXCEPT ![r].pc = "done", ![r].raised = TRUE]
    /\ UNCHANGED mainVars

\* line 103: shutil.rmtree raises if the staging directory is gone
RunRmtree(r) ==
    /\ runs[r].pc = "rmtree"
    /\ IF Exists(RunStaging(r))
       THEN /\ root' = Remove(root, RunStaging(r))
            /\ runs' = [runs EXCEPT ![r].pc = "done"]
       ELSE /\ root' = root
            /\ runs' = [runs EXCEPT ![r].pc = "done", ![r].raised = TRUE]
    /\ UNCHANGED mainVars

----------------------------------------------------------------------------
(* The restore command is given again, for the same timestamp, after the   *)
(* restores that went before (which may have failed and left things).      *)

\* main: restore <timestamp> --type config [--service NAME], once more
StartRestoreConfigAgain ==
    /\ pc = "idle"
    /\ restores >= MaxRestores
    /\ restores < MaxRestores + MaxRetries
    /\ restores' = restores + 1
    /\ \E t \in Timestamps, s \in ServiceArgs :
          /\ ts' = t
          /\ cmd' = [name |-> "restore_config", arg |-> s]
          /\ IF ArchiveFound("config", t)
             THEN pc' = "rc_extract" /\ outcome' = outcome
             ELSE RestoreEnds(FALSE)
    /\ UNCHANGED <<clock, live, root, results, info, si, pi, log, faults,
                   envWrites,
                   removed_count, backups, pending,
                   runs>>

\* main: restore <timestamp> --type database [--database NAME], once more
StartRestoreDatabaseAgain ==
    /\ pc = "idle"
    /\ restores >= MaxRestores
    /\ restores < MaxRestores + MaxRetries
    /\ restores' = restores + 1
    /\ \E t \in Timestamps, d \in DatabaseArgs :
          /\ ts' = t
          /\ cmd' = [name |-> "restore_database", arg |-> d]
          /\ IF ArchiveFound("database", t)
             THEN pc' = "rd_extract" /\ outcome' = outcome
             ELSE RestoreEnds(FALSE)
    /\ UNCHANGED <<clock, live, root, results, info, si, pi, log, faults,
                   envWrites,
                   removed_count, backups, pending,
                   runs>>

----------------------------------------------------------------------------
(* main: the process ends                                                  *)

Exit ==
    /\ pc = "done"
    /\ pc' = "idle"
    /\ cmd' = NoCmd
    /\ ts' = ""
    /\ results' = EmptyTree
    /\ info' = NoInfo
    /\ si' = 1
    /\ pi' = 1
    /\ outcome' = NoOutcome
    /\ log' = <<>>
    /\ removed_count' = 0
    /\ backups' = <<>>
    /\ pending' = {}
    /\ UNCHANGED <<clock, live, root, faults, envWrites, restores,
                   runs>>

\* Every command but the full backup: one single-type backup, then restores,
\* with the environment changing live paths in between.
NextSingle ==
    \/ EnvWrite
    \/ StartConfigBackup \/ StartDatabaseBackup \/ StartMonitoringBackup
    \/ CfgMkdir \/ CfgService \/ CfgPath \/ CfgArchive \/ CfgRmtree
    \/ DbMkdir \/ DbCheck \/ DbDump \/ DbGalera \/ DbArchive \/ DbRmtree
    \/ MonMkdir \/ MonPrometheus \/ MonGrafana \/ MonDashboards
    \/ MonArchive \/ MonRmtree
    \/ StartRestoreConfig \/ RcExtract \/ RcSelect \/ RcNamed
    \/ RcAll \/ RcCleanup
    \/ StartRestoreDatabase \/ RdExtract \/ RdDb \/ RdCleanup
    \/ Exit

SpecSingle == Init /\ [][NextSingle]_vars

\* The configuration backup and restore, with the environment.
NextCfg ==
    \/ EnvWrite
    \/ StartConfigBackup
    \/ CfgMkdir \/ CfgService \/ CfgPath \/ CfgArchive \/ CfgRmtree
    \/ StartRestoreConfig \/ RcExtract \/ RcSelect \/ RcNamed
    \/ RcAll \/ RcCleanup
    \/ Exit

SpecCfg == Init /\ [][NextCfg]_vars

\* The database backup and restore.
NextDb ==
    \/ StartDatabaseBackup
    \/ DbMkdir \/ DbCheck \/ DbDump \/ DbGalera \/ DbArchive \/ DbRmtree
    \/ StartRestoreDatabase \/ RdExtract \/ RdDb \/ RdCleanup
    \/ Exit

SpecDb == Init /\ [][NextDb]_vars

\* The full backup alone.
NextFull ==
    \/ StartFullBackup
    \/ CfgMkdir \/ CfgService \/ CfgPath \/ CfgArchive \/ CfgRmtree
    \/ DbMkdir \/ DbCheck \/ DbDump \/ DbGalera \/ DbArchive \/ DbRmtree
    \/ MonMkdir \/ MonPrometheus \/ MonGrafana \/ MonDashboards
    \/ MonArchive \/ MonRmtree
    \/ FullMetadata
    \/ Exit

SpecFull == Init /\ [][NextFull]_vars

\* Listing and sweeping a catalogue left by earlier runs, as time passes.
NextCatalog ==
    \/ TimePasses
    \/ StartCleanup \/ CleanupFile
    \/ StartList \/ ListFile
    \/ Exit

SpecCatalog == InitCatalog /\ [][NextCatalog]_vars

\* Sweeps alone over such a catalogue, as time passes.
NextSweep ==
    \/ TimePasses
    \/ StartCleanup \/ CleanupFile
    \/ Exit

SpecSweep == InitCatalog /\ [][NextSweep]_vars

\* One backup of the configurations or of the databases, then restores of
\* its timestamp, one after the other, on a host nobody else changes.
NextRetry ==
    \/ StartConfigBackup \/ StartDatabaseBackup
    \/ CfgMkdir \/ CfgService \/ CfgPath \/ CfgArchive \/ CfgRmtree
    \/ DbMkdir \/ DbCheck \/ DbDump \/ DbGalera \/ DbArchive \/ DbRmtree
    \/ StartRestoreConfig \/ StartRestoreConfigAgain
    \/ RcExtract \/ RcSelect \/ RcNamed \/ RcAll \/ RcCleanup
    \/ StartRestoreDatabase \/ StartRestoreDatabaseAgain
    \/ RdExtract \/ RdDb \/ RdCleanup
    \/ Exit

SpecRetry == Init /\ [][NextRetry]_vars

\* A full backup, and after it listings and sweeps as time passes.
NextRetention ==
    \/ StartFullBackup
    \/ CfgMkdir \/ CfgService \/ CfgPath \/ CfgArchive \/ CfgRmtree
    \/ DbMkdir \/ DbCheck \/ DbDump \/ DbGalera \/ DbArchive \/ DbRmtree
    \/ MonMkdir \/ MonPrometheus \/ MonGrafana \/ MonDashboards
    \/ MonArchive \/ MonRmtree
    \/ FullMetadata
    \/ TimePasses
    \/ StartCleanup \/ CleanupFile
    \/ StartList \/ ListFile
    \/ Exit

\* as Init, on a host where every populated path is a directory
InitRetention ==
    /\ Init
    /\ \A p \in PopulatedPaths : live[p] = [kind |-> "dir", data |-> Original]

\* A full backup or a database backup, then a restore of the databases, on
\* a host where every populated path is a directory.
NextFullRestore ==
    \/ StartFullBackup \/ StartDatabaseBackup
    \/ CfgMkdir \/ CfgService \/ CfgPath \/ CfgArchive \/ CfgRmtree
    \/ DbMkdir \/ DbCheck \/ DbDump \/ DbGalera \/ DbArchive \/ DbRmtree
    \/ MonMkdir \/ MonPrometheus \/ MonGrafana \/ MonDashboards
    \/ MonArchive \/ MonRmtree
    \/ FullMetadata
    \/ StartRestoreDatabase \/ RdExtract \/ RdDb \/ RdCleanup
    \/ Exit

SpecFullRestore == InitRetention /\ [][NextFullRestore]_vars

\* What an archive not made from this registry holds under its root entry:
\* a directory for every registered service with an entry of kind k for
\* each populated path, an entry no registered path has the name of, and
\* the directory of a service the registry does not have, with an entry.
ForeignTree(k) ==
    [r \in Services
           \cup {StagedAt(config_paths[nm[1]].service,
                          config_paths[nm[1]].paths[nm[2]]) :
                   nm \in {xy \in (1..Len(config_paths)) \X (1..2) :
                      /\ xy[2] <= Len(config_paths[xy[1]].paths)
                      /\ config_paths[xy[1]].paths[xy[2]] \in PopulatedPaths}}
           \cup {"kamailio/passwd", "nosuch", "nosuch/nosuch"} |->
        IF r \in Services \cup {"nosuch"} THEN MadeDir
        ELSE IF r \in {"kamailio/passwd", "nosuch/nosuch"}
             THEN [kind |-> k, data |-> "foreign"]
             ELSE [kind |-> k, data |-> Original]]

\* The tool is started on a host whose backup root holds such an archive
\* under the name of the configuration archive of second 1.
InitForeign ==
    /\ clock = 1
    /\ live \in {l \in [LivePaths ->
                          {Absent, [kind |-> "file", data |-> Original],
                                   [kind |-> "dir",  data |-> Original]}] :
                    \A p \in RegisteredPaths \ PopulatedPaths : l[p] = Absent}
    /\ \E k \in {"file", "dir"} :
          root = [n \in {ArchiveName("config", create_timestamp(1))} |->
                    [kind |-> "tar",
                     body |-> Rooted(ForeignTree(k),
                                     StagingName("config", create_timestamp(1))),
                     torn |-> FALSE, mtime |-> 1]]
    /\ pc = "idle"
    /\ cmd = NoCmd
    /\ ts = ""
    /\ results = EmptyTree
    /\ info = NoInfo
    /\ si = 1
    /\ pi = 1
    /\ outcome = NoOutcome
    /\ log = <<>>
    /\ faults = 0
    /\ envWrites = 0
    /\ restores = 0
    /\ removed_count = 0
    /\ backups = <<>>
    /\ pending = {}
    /\ runs = [r \in Runs |-> NoRun]

\* Restores of the configurations from it.
NextForeign ==
    \/ StartRestoreConfig \/ RcExtract \/ RcSelect \/ RcNamed
    \/ RcAll \/ RcCleanup
    \/ Exit

SpecForeign == InitForeign /\ [][NextForeign]_vars

SpecRetention == InitRetention /\ [][NextRetention]_vars

\* Configuration backups of one second, restores, listings and sweeps.
NextRepeat ==
    \/ StartConfigBackup \/ StartConfigBackupAgain
    \/ CfgMkdir \/ CfgService \/ CfgPath \/ CfgArchive \/ CfgRmtree
    \/ StartRestoreConfig \/ RcExtract \/ RcSelect \/ RcNamed
    \/ RcAll \/ RcCleanup
    \/ TimePasses
    \/ StartCleanup \/ CleanupFile
    \/ StartList \/ ListFile
    \/ Exit

SpecRepeat == InitRetention /\ [][NextRepeat]_vars

\* Two configuration backups at once.
NextRace ==
    \E r \in Runs :
       \/ RunStart(r) \/ RunMkdir(r) \/ RunService(r)
       \/ RunArchive(r) \/ RunRmtree(r)

SpecRace == Init /\ [][NextRace]_vars

Next ==
    \/ NextRace
    \/ StartRestoreConfigAgain \/ StartRestoreDatabaseAgain
    \/ EnvWrite
    \/ StartConfigBackupAgain
    \/ TimePasses
    \/ StartCleanup \/ CleanupFile
    \/ StartList \/ ListFile
    \/ StartConfigBackup \/ StartDatabaseBackup \/ StartMonitoringBackup
    \/ StartFullBackup
    \/ CfgMkdir \/ CfgService \/ CfgPath \/ CfgArchive \/ CfgRmtree
    \/ DbMkdir \/ DbCheck \/ DbDump \/ DbGalera \/ DbArchive \/ DbRmtree
    \/ MonMkdir \/ MonPrometheus \/ MonGrafana \/ MonDashboards
    \/ MonArchive \/ MonRmtree
    \/ FullMetadata
    \/ StartRestoreConfig \/ RcExtract \/ RcSelect \/ RcNamed
    \/ RcAll \/ RcCleanup
    \/ StartRestoreDatabase \/ RdExtract \/ RdDb \/ RdCleanup
    \/ Exit

Spec == Init /\ [][Next]_vars

----------------------------------------------------------------------------
(* Properties.                                                             *)

Components == {"configurations", "databases", "monitoring"}

\* positions of an event in the running command's log
EventAt(e) == {k \in 1..Len(log) : log[k] = e}
EventsOfKind(kind) == {k \in 1..Len(log) : log[k][1] = kind}
LogHas(e) == EventAt(e) # {}
Began(c) == EventAt(<<"begin", c>>)
EndedAt(c) == EventAt(<<"returned", c>>) \cup EventAt(<<"raised", c>>)
IsDump(e) == e[1] = "mysqldump"
IsMysql(e) == e[1] = "mysql"

RestoreCommands == {"restore_config", "restore_database"}
ArchiveTypeOf(name) == IF name = "restore_config" THEN "config" ELSE "database"

\* C1: a full backup, whatever failed in its components, ends with its
\* metadata file backup_metadata_{timestamp}.json in the backup root, and
\* with no other metadata file written by it.
C1_FullBackupWritesMetadata ==
    (pc = "done" /\ cmd.name = "full") =>
        /\ ~outcome.raised
        /\ Exists(MetadataName(ts))
        /\ root[MetadataName(ts)] = JsonNode(info)
        /\ {n \in DOMAIN root : root[n].kind = "json"} = {MetadataName(ts)}

C1_Witness ==
    /\ pc = "done" /\ cmd.name = "full"
    /\ info.results["configurations"] = ErrorMap
    /\ "database_service" \in DOMAIN info.results["databases"]
    /\ Exists(MetadataName(ts))

\* C2: in a full backup the components are attempted in the order
\* configurations, databases, monitoring, each exactly once and each after
\* the one before has returned or raised; the attempt after a component that
\* raised is the next thing done; the metadata is written after all three
\* have ended.
C2_ComponentsInOrder ==
    cmd.name = "full" =>
        /\ \A k \in Began("databases") :
              \E j \in EndedAt("configurations") : j < k
        /\ \A k \in Began("monitoring") :
              \E j \in EndedAt("databases") : j < k
        /\ \A k \in EventAt(<<"metadata", ts>>) :
              \A c \in Components : \E j \in EndedAt(c) : j < k
        /\ Exists(MetadataName(ts)) => LogHas(<<"metadata", ts>>)
        /\ \A c \in Components : Cardinality(Began(c)) <= 1
        /\ (Len(log) > 0 /\ log[Len(log)][2] = "configurations"
              /\ log[Len(log)][1] \in {"returned", "raised"}) => pc = "db_mkdir"
        /\ (Len(log) > 0 /\ log[Len(log)][2] = "databases"
              /\ log[Len(log)][1] \in {"returned", "raised"}) => pc = "mon_mkdir"
        /\ pc = "done" => \A c \in Components : Cardinality(Began(c)) = 1

C2_Witness ==
    /\ pc = "done" /\ cmd.name = "full"
    /\ LogHas(<<"raised", "configurations">>)
    /\ LogHas(<<"returned", "databases">>)
    /\ LogHas(<<"returned", "monitoring">>)
    /\ Exists(MetadataName(ts))

\* C3: after a restore has returned, True or False, the staging directory
\* it extracted into is gone (stated here for the restores in which no I/O
\* operation failed, which is enough to refute it).
C3_RestoreStagingRemoved ==
    (pc = "done" /\ cmd.name \in RestoreCommands /\ faults = 0) =>
        /\ ~Exists(TempRestoreName(ts))
        /\ ~Exists(TempDbRestoreName(ts))

\* C4: after a single-type backup has finished, however it finished, its
\* staging directory {type}_{timestamp} is gone.
C4_BackupStagingRemoved ==
    (pc = "done" /\ cmd.name \in {"config", "database", "monitoring"}) =>
        ~Exists(StagingName(cmd.name, ts))

\* C5: a restore of a timestamp that has no archive of the requested type
\* returns failure at once, having changed no live path and started no
\* restore command.
C5_MissingArchiveRestoreFails ==
    [][(/\ pc = "idle"
        /\ cmd'.name \in RestoreCommands
        /\ ~Exists(ArchiveName(ArchiveTypeOf(cmd'.name), ts')))
       => (/\ pc' = "done"
           /\ outcome'.ret = FALSE
           /\ outcome'.exit = 1
           /\ live' = live
           /\ root' = root
           /\ log' = log)]_vars

C5_Witness ==
    /\ pc = "done" /\ cmd.name = "restore_config"
    /\ ~Exists(ArchiveName("config", ts))
    /\ Exists(ArchiveName("database", ts))
    /\ outcome.ret = FALSE
    /\ \E p \in PopulatedPaths : live[p] # Absent

\* C6: after a configuration backup and, with no I/O failure anywhere, a
\* restore of one registered service from it, every path of the service
\* that the archive holds is live with the content it was backed up with.
C6_RoundTrip ==
    (/\ pc = "done" /\ cmd.name = "restore_config"
     /\ cmd.arg \in Services
     /\ faults = 0
     /\ Exists(ArchiveName("config", ts))) =>
        \A k \in 1..Len(PathsOf(cmd.arg)) :
            LET path == PathsOf(cmd.arg)[k]
                held == root[ArchiveName("config", ts)].body
                rel  == StagingName("config", ts) \o "/" \o StagedAt(cmd.arg, path)
            IN  rel \in DOMAIN held => live[path] = held[rel]

\* C7: a database restore starts the restore commands in the order of its
\* list; every command before the last one started exited 0; and when a
\* command exits non-zero (or raises) the restore has returned failure and
\* no command was started after it.
C7_RestoreFailFast ==
    cmd.name = "restore_database" =>
        LET todo == DatabasesToRestore(cmd.arg)
            ran  == SelectSeq(log, IsMysql)
        IN  /\ Len(ran) <= Len(todo)
            /\ \A k \in 1..Len(ran) :
                  /\ ran[k][2] = todo[k]
                  /\ k < Len(ran) => ran[k][3] = "0"
            /\ (Len(ran) > 0 /\ ran[Len(ran)][3] # "0") =>
                  (pc = "done" /\ outcome.ret = FALSE)

C7_Witness ==
    /\ pc = "done" /\ cmd.name = "restore_database" /\ cmd.arg = ""
    /\ Len(log) > 0
    /\ log[Len(log)] = <<"mysql", db_databases[2], "1">>
    /\ LogHas(<<"mysql", db_databases[1], "0">>)
    /\ outcome.ret = FALSE

\* C8: in a database backup the dumps run one after the other in the
\* configured order; when the next dump starts every earlier database has
\* its outcome recorded; a database's outcome is "success" exactly when its
\* compressed dump is staged, whatever happened to the others; and once the
\* loop is over every configured database has an outcome.
C8_DumpFailSoft ==
    cmd.name = "database" =>
        LET ran == SelectSeq(log, IsDump)
            all == {db_databases[k] : k \in 1..Len(db_databases)}
        IN  /\ \A k \in 1..Len(ran) : ran[k][2] = db_databases[k]
            /\ pc = "db_dump" =>
                  /\ Len(ran) = si - 1
                  /\ DOMAIN results = {db_databases[k] : k \in 1..(si - 1)}
            /\ pc \in {"db_galera", "db_archive", "db_rmtree"} =>
                  /\ Len(ran) = Len(db_databases)
                  /\ all \subseteq DOMAIN results
            /\ (pc = "done" /\ ~outcome.raised
                  /\ LogHas(<<"is-active", "active">>)) =>
                  /\ all \subseteq DOMAIN outcome.ret
                  /\ outcome.ret = results
            /\ Exists(DbStaging) =>
                  \A db \in all \cap DOMAIN results :
                     /\ results[db] = "success" <=>
                           SqlGzName(db, ts) \in DOMAIN root[DbStaging].body
                     /\ results[db] # "success" <=>
                           SqlName(db, ts) \in DOMAIN root[DbStaging].body

C8_Witness ==
    /\ pc = "done" /\ cmd.name = "database" /\ ~outcome.raised
    /\ LogHas(<<"is-active", "active">>)
    /\ outcome.ret[db_databases[1]] = "error"
    /\ outcome.ret[db_databases[2]] = "success"
    /\ outcome.ret[db_databases[3]] = "success"

\* C9: in a database backup no dump is started before the engine was found
\* active; when the engine is found not active the operation has returned
\* the single outcome database_service: not_running and started no dump.
C9_InactiveEngineIsFatal ==
    cmd.name = "database" =>
        /\ \A k \in 1..Len(log) :
              IsDump(log[k]) =>
                 \E j \in EventAt(<<"is-active", "active">>) : j < k
        /\ LogHas(<<"is-active", "inactive">>) =>
              /\ SelectSeq(log, IsDump) = <<>>
              /\ pc = "done"
              /\ ~outcome.raised
              /\ outcome.ret = [k \in {"database_service"} |-> "not_running"]

C9_Witness ==
    /\ pc = "done" /\ cmd.name = "database"
    /\ LogHas(<<"is-active", "inactive">>)
    /\ DOMAIN outcome.ret = {"database_service"}

\* C10: once a configuration backup has gone through the registry, every
\* registered path has an outcome under its own key; a path that is missing
\* has the outcome path_not_found and no entry in the staging tree nor in
\* the archive written from it.
C10_MissingPathRecorded ==
    (cmd.name = "config" /\ pc \in {"cfg_archive", "cfg_rmtree", "done"}) =>
        \A n \in 1..Len(config_paths) :
          \A m \in 1..Len(config_paths[n].paths) :
            LET service == config_paths[n].service
                path    == config_paths[n].paths[m]
                key     == service \o "_" \o path[Len(path)]
                rel     == service \o "/" \o path[Len(path)]
                arch    == ArchiveName("config", ts)
            IN  /\ key \in DOMAIN results
                /\ (pc = "done" /\ ~outcome.raised) => outcome.ret = results
                /\ live[path] = Absent =>
                      /\ results[key] = "path_not_found"
                      /\ Exists(CfgStaging) =>
                            rel \notin DOMAIN root[CfgStaging].body
                      /\ Exists(arch) =>
                            (CfgStaging \o "/" \o rel) \notin DOMAIN root[arch].body

C10_Witness ==
    /\ pc = "done" /\ cmd.name = "config" /\ ~outcome.raised
    /\ live[<<"etc", "kamailio">>] = Absent
    /\ outcome.ret["kamailio_kamailio"] = "path_not_found"
    /\ outcome.ret["freeradius_freeradius"] = "success"
    /\ Exists(ArchiveName("config", ts))
    /\ "config_20240101_000001/freeradius/freeradius"
          \in DOMAIN root[ArchiveName("config", ts)].body

\* every (service number, path number) of the registry
RegistryIndex ==
    {<<n, m>> \in (1..Len(config_paths)) \X (1..2) :
        m <= Len(config_paths[n].paths)}
KeyAt(nm) ==
    config_paths[nm[1]].service \o "_" \o
    config_paths[nm[1]].paths[nm[2]][Len(config_paths[nm[1]].paths[nm[2]])]
MemberAt(nm) ==
    "config_" \o ts \o "/" \o config_paths[nm[1]].service \o "/" \o
    config_paths[nm[1]].paths[nm[2]][Len(config_paths[nm[1]].paths[nm[2]])]
PathAt(nm) == config_paths[nm[1]].paths[nm[2]]
ConfigBackupReturned ==
    pc = "done" /\ cmd.name = "config" /\ ~outcome.raised

\* C11: in a configuration backup every copy failure leaves "error" under
\* the key of the path it hit and under no other key; once the registry has
\* been gone through every registered path has an outcome of its own, the
\* paths that exist and were not hit have "success" and are staged with
\* their content; and unless the archive step itself fails the backup
\* returns with its archive written.
C11_CopyFailureIsLocal ==
    (cmd.name = "config" /\ pc \in {"cfg_archive", "cfg_rmtree", "done"}) =>
        LET errors == {nm \in RegistryIndex :
                          KeyAt(nm) \in DOMAIN results
                          /\ results[KeyAt(nm)] = "error"}
            archiveFaults == IF pc = "done" /\ outcome.raised THEN 1 ELSE 0
        IN  /\ \A nm \in RegistryIndex : KeyAt(nm) \in DOMAIN results
            /\ Cardinality(errors) = faults - archiveFaults
            /\ \A nm \in RegistryIndex \ errors :
                  results[KeyAt(nm)] =
                     IF live[PathAt(nm)] = Absent THEN "path_not_found"
                     ELSE "success"
            /\ (~ConfigBackupReturned /\ Exists(CfgStaging)) =>
                  \A nm \in RegistryIndex \ errors :
                     live[PathAt(nm)] # Absent =>
                        root[CfgStaging].body[StagedAt(config_paths[nm[1]].service,
                                                       PathAt(nm))]
                           = live[PathAt(nm)]
            /\ (pc = "cfg_rmtree" \/ ConfigBackupReturned) =>
                  /\ Exists(ArchiveName("config", ts))
                  /\ ~root[ArchiveName("config", ts)].torn
            /\ ConfigBackupReturned => outcome.ret = results

C11_Witness ==
    /\ ConfigBackupReturned
    /\ outcome.ret["kamailio_kamailio"] = "error"
    /\ outcome.ret["freeradius_freeradius"] = "success"
    /\ outcome.ret["haproxy_haproxy"] = "path_not_found"
    /\ Exists(ArchiveName("config", ts))

\* C12 as stated: the archive written by a configuration backup holds, for
\* every registered path that exists at backup time, the path's content
\* under config_{timestamp}/service/basename.
C12_EveryExistingPathArchived ==
    ConfigBackupReturned =>
        \A nm \in RegistryIndex :
            live[PathAt(nm)] # Absent =>
               /\ MemberAt(nm) \in DOMAIN root[ArchiveName("config", ts)].body
               /\ root[ArchiveName("config", ts)].body[MemberAt(nm)]
                     = live[PathAt(nm)]

\* C12 amended: the archive written by a configuration backup holds, for
\* every registered path that exists at backup time and whose copy did not
\* fail (its outcome is "success"), the path's content under
\* config_{timestamp}/service/basename; and a path that exists has the
\* outcome "success" unless its copy failed.
C12_EveryCopiedPathArchived ==
    ConfigBackupReturned =>
        \A nm \in RegistryIndex :
            live[PathAt(nm)] # Absent =>
               /\ outcome.ret[KeyAt(nm)] \in {"success", "error"}
               /\ outcome.ret[KeyAt(nm)] = "success" =>
                     /\ MemberAt(nm) \in DOMAIN root[ArchiveName("config", ts)].body
                     /\ root[ArchiveName("config", ts)].body[MemberAt(nm)]
                           = live[PathAt(nm)]
               /\ faults = 0 => outcome.ret[KeyAt(nm)] = "success"

C12_Witness ==
    /\ ConfigBackupReturned
    /\ live[<<"etc", "kamailio">>] = [kind |-> "dir", data |-> Original]
    /\ live[<<"etc", "freeradius">>] = [kind |-> "file", data |-> Original]
    /\ outcome.ret["kamailio_kamailio"] = "success"
    /\ outcome.ret["freeradius_freeradius"] = "success"
    /\ root[ArchiveName("config", ts)].body["config_20240101_000001/kamailio/kamailio"]
          = [kind |-> "dir", data |-> Original]

CleanupRunning == cmd.name = "cleanup" /\ pc \in {"cl_file", "done"}

\* C13: cleanup_old_backups(keep_days) removes an archive only if its
\* modification time is strictly before now - keep_days days, counting each
\* one it removes; it changes no other archive; and when it returns, no
\* archive older than the cutoff is left and the count it returns is the
\* number of archives it removed.
C13_SweepsExactlyTheOld ==
    /\ [](CleanupRunning =>
            /\ \A a \in GlobArchives(root) \ pending :
                  (pc = "done" /\ outcome.raised) \/ root[a].mtime >= cutoff_date
            /\ pc = "done" /\ ~outcome.raised =>
                  outcome.ret = removed_count /\ pending = {})
    /\ [][(CleanupRunning /\ cmd' = cmd) =>
            LET gone == GlobArchives(root) \ GlobArchives(root')
            IN  /\ \A a \in gone : root[a].mtime < clock - cmd.arg * Day
                /\ removed_count' = removed_count + Cardinality(gone)
                /\ \A a \in GlobArchives(root') :
                      a \in GlobArchives(root) /\ root'[a] = root[a]]_vars

C13_Witness ==
    /\ pc = "done" /\ cmd.name = "cleanup" /\ ~outcome.raised
    /\ clock > Day
    /\ cmd.arg > 0
    /\ outcome.ret >= 2
    /\ \E a \in GlobArchives(root) : root[a].mtime = cutoff_date

\* C14: when a sweep has removed archives and no archive of a timestamp is
\* left, the metadata record backup_metadata_{timestamp}.json of that
\* timestamp is gone too.
C14_SweepRemovesMetadata ==
    (pc = "done" /\ cmd.name = "cleanup" /\ ~outcome.raised
       /\ outcome.ret > 0) =>
        \A t \in AllTimestamps :
            (\A type \in ArchiveTypes : ~Exists(ArchiveName(type, t)))
               => ~Exists(MetadataName(t))

\* C15: list_backups returns the records of exactly the metadata files that
\* can be parsed and have a timestamp, each once, newest timestamp first;
\* the other metadata files do not stop it.
C15_ListSortedSkippingCorrupt ==
    (pc = "done" /\ cmd.name = "list") =>
        LET ret  == outcome.ret
            good == {f \in DOMAIN root :
                        /\ root[f].kind = "json"
                        /\ ~root[f].torn
                        /\ "timestamp" \in DOMAIN root[f].body}
        IN  /\ ~outcome.raised
            /\ outcome.exit = 0
            /\ Len(ret) = Cardinality(good)
            /\ {[x \in DOMAIN ret[k] \ {"total_size_mb"} |-> ret[k][x]] :
                    k \in 1..Len(ret)} = {root[f].body : f \in good}
            /\ \A i, j \in 1..Len(ret) :
                  i < j => SecondOf(ret[i].timestamp) > SecondOf(ret[j].timestamp)

C15_Witness ==
    /\ pc = "done" /\ cmd.name = "list"
    /\ Len(outcome.ret) = 2
    /\ outcome.ret[1].timestamp = create_timestamp(3)
    /\ outcome.ret[2].timestamp = create_timestamp(1)
    /\ Exists(MetadataName(create_timestamp(2)))
    /\ root[MetadataName(create_timestamp(2))].torn

\* C16: the command line exits with code 1 exactly when a restore returned
\* failure; every other command, whatever happened in it, exits with 0.
C16_ExitOneOnlyOnFailedRestore ==
    pc = "done" =>
        (outcome.exit = 1 <=>
            (cmd.name \in RestoreCommands /\ outcome.ret = FALSE))

\* the registered live paths of one service, as the registry lists them
OwnPaths(service) ==
    {config_paths[n].paths[m] :
        <<n, m>> \in {nm \in RegistryIndex :
                        config_paths[nm[1]].service = service}}

\* C17: no step of a configuration restore with a named service changes a
\* registered live path of another service, whichever way the restore ends.
C17_NamedRestoreTouchesOnlyItsPaths ==
    [][(cmd.name = "restore_config" /\ cmd.arg # "") =>
          \A p \in RegisteredPaths :
             live'[p] # live[p] => p \in OwnPaths(cmd.arg)]_vars

C17_Witness ==
    /\ pc = "done" /\ cmd.name = "restore_config" /\ cmd.arg = "kamailio"
    /\ outcome.ret = TRUE
    /\ live[<<"etc", "kamailio">>] = [kind |-> "dir", data |-> Original]
    /\ live[<<"etc", "freeradius">>] = [kind |-> "file", data |-> Edited]
    /\ Exists(ArchiveName("config", ts))
    /\ "config_20240101_000001/freeradius/freeradius"
          \in DOMAIN root[ArchiveName("config", ts)].body
    /\ root[ArchiveName("config", ts)].body["config_20240101_000001/freeradius/freeradius"]
          = [kind |-> "dir", data |-> Original]

\* the registry entries a step of the restore loops is looking at
PathInHand ==
    IF pc = "rc_named"
    THEN {nm \in RegistryIndex :
             config_paths[nm[1]].service = cmd.arg /\ nm[2] = pi}
    ELSE IF pc = "rc_all" THEN {<<si, pi>>} \cap RegistryIndex
    ELSE {}

\* the registered path of that entry has nothing in the extracted tree
NotInStagedTree(nm) ==
    ~Exists(TempRestoreName(ts))
    \/ MemberAt(nm) \notin DOMAIN root[TempRestoreName(ts)].body

\* C18: in the loops of a configuration restore, a registered path with
\* nothing in the extracted tree is passed over: the step changes no live
\* path, sets no result and the loop goes on.  A step on which a copy or a
\* remove fails ends the restore with False and exit code 1, and no live
\* path changes after that; a step after which the loop goes on has left
\* the path in hand equal to its extracted source and changed no other.
C18_AbsentSkippedErrorAborts ==
    [][/\ (cmd.name = "restore_config" /\ pc \in {"rc_named", "rc_all"}) =>
            /\ \A nm \in PathInHand :
                  NotInStagedTree(nm) =>
                     live' = live /\ pc' = pc /\ outcome' = outcome
            /\ faults' # faults =>
                  pc' = "done" /\ outcome'.ret = FALSE
            /\ pc' = "done" =>
                  /\ outcome'.ret = FALSE /\ outcome'.exit = 1
                  /\ si' = si /\ pi' = pi
            /\ pc' # "done" =>
                  \A nm \in RegistryIndex :
                     live'[PathAt(nm)] # live[PathAt(nm)] =>
                        /\ nm \in PathInHand
                        /\ live'[PathAt(nm)] =
                              root[TempRestoreName(ts)].body[MemberAt(nm)]
       /\ (cmd.name = "restore_config" /\ pc = "done") => live' = live]_vars

C18_Witness ==
    /\ pc = "done" /\ cmd.name = "restore_config" /\ cmd.arg = ""
    /\ outcome.ret = TRUE
    /\ Exists(ArchiveName("config", ts))
    /\ "config_20240101_000001/kamailio/kamailio"
          \notin DOMAIN root[ArchiveName("config", ts)].body
    /\ "config_20240101_000001/freeradius/freeradius"
          \in DOMAIN root[ArchiveName("config", ts)].body
    /\ live[<<"etc", "kamailio">>] = [kind |-> "dir", data |-> Edited]

\* the staging directory of the restore in hand holds every member of the
\* archive it was asked for, as the archive has it
StagedWhole(fs) ==
    LET arch == ArchiveName(ArchiveTypeOf(cmd.name), ts)
        temp == IF cmd.name = "restore_config" THEN TempRestoreName(ts)
                ELSE TempDbRestoreName(ts)
    IN  /\ arch \in DOMAIN fs /\ temp \in DOMAIN fs
        /\ ~fs[arch].torn
        /\ \A k \in DOMAIN fs[arch].body :
              k \in DOMAIN fs[temp].body /\ fs[temp].body[k] = fs[arch].body[k]

MysqlStarted == Len(SelectSeq(log, IsMysql))

\* C19: in both restores, a step that changes a live path or starts a
\* database restore command is taken only when the staging directory holds
\* the whole archive; the extraction step itself changes no live path and
\* starts no command, and the restore goes on after it only when the
\* extraction is complete: otherwise it has returned False, and the live
\* paths and the commands started stay as they were before the restore.
C19_ExtractionBeforeLiveChange ==
    [][cmd.name \in RestoreCommands =>
          /\ (live' # live \/ MysqlStarted' > MysqlStarted) =>
                StagedWhole(root) /\ pc \notin {"rc_extract", "rd_extract"}
          /\ (pc \in {"rc_extract", "rd_extract"} /\ ~StagedWhole(root')) =>
                /\ pc' = "done"
                /\ outcome'.ret = FALSE /\ outcome'.exit = 1
          /\ (pc = "done" /\ cmd' = cmd) =>
                live' = live /\ MysqlStarted' = MysqlStarted]_vars

C19_Witness ==
    /\ pc = "done" /\ cmd.name = "restore_config" /\ cmd.arg = ""
    /\ outcome.ret = FALSE
    /\ Exists(ArchiveName("config", ts))
    /\ ~root[ArchiveName("config", ts)].torn
    /\ "config_20240101_000001/kamailio/kamailio"
          \in DOMAIN root[ArchiveName("config", ts)].body
    /\ Exists(TempRestoreName(ts))
    /\ "config_20240101_000001/kamailio/kamailio"
          \notin DOMAIN root[TempRestoreName(ts)].body
    /\ live[<<"etc", "kamailio">>] = [kind |-> "dir", data |-> Edited]

\* C20: a database restore with a database named starts the restore
\* command for that database and for no other, once at most; with none
\* named, the commands it starts are for the configured databases in the
\* configured order; and a restore that returned True started, with exit
\* code 0, the one command of the named database, or one command for each
\* configured database.
C20_NamedDatabaseOnly ==
    cmd.name = "restore_database" =>
        LET ran == SelectSeq(log, IsMysql)
        IN  /\ cmd.arg # "" =>
                  /\ Len(ran) <= 1
                  /\ \A k \in 1..Len(ran) : ran[k][2] = cmd.arg
            /\ cmd.arg = "" =>
                  /\ Len(ran) <= Len(db_databases)
                  /\ \A k \in 1..Len(ran) : ran[k][2] = db_databases[k]
            /\ (pc = "done" /\ outcome.ret = TRUE) =>
                  /\ Len(ran) = IF cmd.arg # "" THEN 1 ELSE Len(db_databases)
                  /\ \A k \in 1..Len(ran) : ran[k][3] = "0"

C20_Witness ==
    /\ pc = "done" /\ cmd.name = "restore_database" /\ cmd.arg = "radius"
    /\ outcome.ret = TRUE
    /\ SelectSeq(log, IsMysql) = << <<"mysql", "radius", "0">> >>

\* the outcome maps the full backup has recorded for a component, and
\* whether the component's operation returned its map itself
RecordedMap(comp) == info.results[comp]
Recorded(comp) == cmd.name = "full" /\ comp \in DOMAIN info.results
Returned(comp) == Recorded(comp) /\ LogHas(<<"returned", comp>>)
DumpedDatabases == {e[2] : e \in {log[k] : k \in EventsOfKind("mysqldump")}}
AllDatabases == {db_databases[k] : k \in 1..Len(db_databases)}

\* C21 as stated: the outcome map a backup-type operation returned has
\* exactly the keys of the components attempted: the configuration map one key for
\* every registered (service, path) pair, the database map one key for
\* every database whose dump was attempted (and for the status capture
\* attempted after them) and no other key.
C21_KeysAreComponentsAttempted ==
    /\ Returned("configurations") =>
          /\ DOMAIN RecordedMap("configurations") =
                {KeyAt(nm) : nm \in RegistryIndex}
          /\ Cardinality(DOMAIN RecordedMap("configurations")) =
                Cardinality(RegistryIndex)
    /\ Returned("databases") =>
          DOMAIN RecordedMap("databases") =
             DumpedDatabases \cup
                (IF DumpedDatabases = AllDatabases
                 THEN {"galera_cluster_info"} ELSE {})

\* C21 amended: the outcome map of a backup-type operation that returned
\* has exactly the keys of the components attempted: the configuration map
\* one key for every registered (service, path) pair; the database map of
\* a run that found the engine active one key for every configured
\* database, each of them attempted, and the key of the status capture;
\* and a run whose liveness check failed attempted no database and
\* returned the single key database_service or database_check.
C21_KeysOfReturnedMaps ==
    /\ Returned("configurations") =>
          /\ DOMAIN RecordedMap("configurations") =
                {KeyAt(nm) : nm \in RegistryIndex}
          /\ Cardinality(DOMAIN RecordedMap("configurations")) =
                Cardinality(RegistryIndex)
    /\ Returned("databases") =>
          IF LogHas(<<"is-active", "active">>)
          THEN /\ DumpedDatabases = AllDatabases
               /\ DOMAIN RecordedMap("databases") =
                     AllDatabases \cup {"galera_cluster_info"}
          ELSE /\ DumpedDatabases = {}
               /\ DOMAIN RecordedMap("databases") \in
                     {{"database_service"}, {"database_check"}}

C21_Witness ==
    /\ pc = "done" /\ cmd.name = "full"
    /\ Returned("configurations") /\ Returned("databases")
    /\ RecordedMap("configurations")["kamailio_kamailio"] = "success"
    /\ RecordedMap("configurations")["ssl_certs_ca"] = "path_not_found"
    /\ LogHas(<<"is-active", "active">>)
    /\ RecordedMap("databases")["radius"] = "error"
    /\ RecordedMap("databases")["mysql"] = "success"

\* the archives under the backup root that are of a type and a timestamp:
\* by their name, or by the entry their members are rooted at
ArchivesOf(type, t) ==
    {f \in DOMAIN root :
        /\ root[f].kind = "tar"
        /\ \/ f = type \o "_backup_" \o t \o ".tar.gz"
           \/ (type \o "_" \o t) \in DOMAIN root[f].body}

\* C22: whatever backups (also two of one second), restores, listings and
\* sweeps have run, the backup root holds at most one archive of a type
\* and a timestamp, and every archive in it is of one type and timestamp.
C22_OneArchivePerTypeAndTimestamp ==
    /\ \A type \in ArchiveTypes, t \in AllTimestamps :
          Cardinality(ArchivesOf(type, t)) <= 1
    /\ \A f \in DOMAIN root :
          root[f].kind = "tar" =>
             \E type \in ArchiveTypes, t \in AllTimestamps :
                f \in ArchivesOf(type, t)

C22_Witness ==
    /\ pc = "cfg_rmtree" /\ cmd.name = "config"
    /\ ArchivesOf("config", ts) = {"config_backup_20240101_000001.tar.gz"}
    /\ root["config_backup_20240101_000001.tar.gz"].torn = FALSE
    /\ faults = 1
    /\ \A nm \in RegistryIndex : results[KeyAt(nm)] # "error"

\* a step of invocation r that reads, writes or removes its staging
\* directory
RunTouchesStaging(r) ==
    /\ RunUsesStaging(r)
    /\ runs'[r] # runs[r]
    /\ ~(runs[r].pc = "stage" /\ runs[r].si > Len(config_paths))

\* C23: no invocation reads, writes into or removes a staging directory
\* that another invocation created and is still using.
C23_StagingOwnedExclusively ==
    [][\A r \in Runs : \A o \in Runs \ {r} :
          RunTouchesStaging(r) =>
             ~(/\ RunUsesStaging(o)
               /\ runs[o].created
               /\ RunStaging(o) = RunStaging(r))]_vars

\* the archive step of each component's operation
ArchiveStepOf(comp) ==
    CASE comp = "configurations" -> "cfg_archive"
      [] comp = "databases"      -> "db_archive"
      [] comp = "monitoring"     -> "mon_archive"
ArchiveOfComponent(comp) ==
    CASE comp = "configurations" -> "config_backup_" \o ts \o ".tar.gz"
      [] comp = "databases"      -> "database_backup_" \o ts \o ".tar.gz"
      [] comp = "monitoring"     -> "monitoring_backup_" \o ts \o ".tar.gz"

\* C24: in a full backup, a failing archive step ends that type's
\* operation at once with the exception raised and no outcome map
\* returned; the full backup records {"error": ...} under that type's key,
\* leaves what it recorded for the other types as it is and goes on with
\* the next type; and the record written at the end has the error under
\* exactly the types whose operation raised, none of which has left a
\* complete archive.
C24_ArchiveFailureFatalToItsType ==
    /\ [][\A comp \in Components :
            (cmd.name = "full" /\ pc = ArchiveStepOf(comp)
               /\ faults' > faults) =>
                /\ log' = Append(log, <<"raised", comp>>)
                /\ DOMAIN info'.results = DOMAIN info.results \cup {comp}
                /\ info'.results[comp] = [k \in {"error"} |-> "error"]
                /\ \A c \in DOMAIN info.results \ {comp} :
                      info'.results[c] = info.results[c]
                /\ pc' \in {"db_mkdir", "mon_mkdir", "full_meta"}
                /\ pc' # "done"]_vars
    /\ []((cmd.name = "full" /\ pc = "done") =>
            /\ Exists(MetadataName(ts))
            /\ root[MetadataName(ts)].body = info
            /\ \A comp \in Components :
                  /\ comp \in DOMAIN info.results
                  /\ LogHas(<<"raised", comp>>) <=>
                        info.results[comp] = [k \in {"error"} |-> "error"]
                  /\ LogHas(<<"raised", comp>>) =>
                        (Exists(ArchiveOfComponent(comp)) =>
                            root[ArchiveOfComponent(comp)].torn))

C24_Witness ==
    /\ pc = "done" /\ cmd.name = "full"
    /\ LogHas(<<"raised", "configurations">>)
    /\ info.results["configurations"] = [k \in {"error"} |-> "error"]
    /\ LogHas(<<"returned", "databases">>)
    /\ "mysql" \in DOMAIN info.results["databases"]
    /\ info.results["databases"]["mysql"] = "success"
    /\ Exists(MetadataName(ts))
    /\ Exists(ArchiveName("database", ts))
    /\ ~Exists(ArchiveName("config", ts))

\* C25: in a database backup, the step on which the capture of the cluster
\* status fails changes the outcome of no database and no staged dump: it
\* adds its own failure under galera_cluster_info and the backup goes on to
\* the archive step; and a backup that returned with the capture failed
\* has written its archive, with the compressed dump of every database
\* whose outcome is success.
C25_StatusCaptureFailureIsLocal ==
    /\ [][(cmd.name = "database" /\ pc = "db_galera" /\ faults' > faults) =>
            /\ \A k \in 1..Len(db_databases) :
                  /\ db_databases[k] \in DOMAIN results
                  /\ results'[db_databases[k]] = results[db_databases[k]]
            /\ DOMAIN results' = DOMAIN results \cup {"galera_cluster_info"}
            /\ results'["galera_cluster_info"] \in {"error", "exception"}
            /\ \A f \in DOMAIN root[DbStaging].body :
                  /\ f \in DOMAIN root'[DbStaging].body
                  /\ f # ("galera_cluster_info_" \o ts \o ".txt") =>
                        root'[DbStaging].body[f] = root[DbStaging].body[f]
            /\ pc' = "db_archive"]_vars
    /\ []((cmd.name = "database" /\ pc = "done" /\ ~outcome.raised
             /\ "galera_cluster_info" \in DOMAIN outcome.ret
             /\ outcome.ret["galera_cluster_info"] # "success") =>
            /\ Exists(ArchiveName("database", ts))
            /\ ~root[ArchiveName("database", ts)].torn
            /\ \A k \in 1..Len(db_databases) :
                  outcome.ret[db_databases[k]] = "success" <=>
                     ("database_" \o ts \o "/" \o db_databases[k] \o "_"
                         \o ts \o ".sql.gz")
                        \in DOMAIN root[ArchiveName("database", ts)].body)

C25_Witness ==
    /\ pc = "done" /\ cmd.name = "database" /\ ~outcome.raised
    /\ "galera_cluster_info" \in DOMAIN outcome.ret
    /\ outcome.ret["galera_cluster_info"] = "exception"
    /\ outcome.ret["kamailio"] = "success"
    /\ Exists(ArchiveName("database", ts))
    /\ "database_20240101_000001/kamailio_20240101_000001.sql.gz"
          \in DOMAIN root[ArchiveName("database", ts)].body

\* C26: a sweep ends by returning its count, with every archive of the
\* glob gone through, also when the deletion of one of them failed.
C26_SweepSurvivesDeletionFailure ==
    (cmd.name = "cleanup" /\ pc = "done") =>
        /\ ~outcome.raised
        /\ outcome.ret = removed_count
        /\ pending = {}

\* the bytes of the file of that name, if the backup root has it
BytesOf(name) == IF name \in DOMAIN root THEN st_size(root[name]) ELSE 0

\* the bytes of the archives and of the metadata record of a timestamp
BytesOfTimestamp(t) ==
    BytesOf("config_backup_" \o t \o ".tar.gz")
    + BytesOf("database_backup_" \o t \o ".tar.gz")
    + BytesOf("monitoring_backup_" \o t \o ".tar.gz")
    + BytesOf("backup_metadata_" \o t \o ".json")

\* C27: every record list_backups returns carries as its total size the
\* sum of the sizes of the archives and of the metadata record of its
\* timestamp, and of no other file, as a number of MiB rounded to the
\* nearest hundredth.
C27_TotalSizeOfTimestampFiles ==
    (pc = "done" /\ cmd.name = "list") =>
        \A k \in 1..Len(outcome.ret) :
            LET rec   == outcome.ret[k]
                bytes == BytesOfTimestamp(rec.timestamp)
                diff  == 100 * bytes - rec.total_size_mb * 1048576
            IN  /\ "total_size_mb" \in DOMAIN rec
                /\ 2 * diff <= 1048576
                /\ 2 * diff >= -1048576

C27_Witness ==
    /\ pc = "done" /\ cmd.name = "list"
    /\ Len(outcome.ret) = 1
    /\ outcome.ret[1].timestamp = create_timestamp(2)
    /\ outcome.ret[1].total_size_mb = 296
    /\ Exists(ArchiveName("config", create_timestamp(2)))
    /\ Exists(ArchiveName("monitoring", create_timestamp(2)))
    /\ Exists(ArchiveName("config", create_timestamp(1)))
    /\ Exists(ArchiveName("config", create_timestamp(3)))

\* the positions of a backup-type operation between the making of its
\* staging directory and its return
StagingPositions(type) ==
    CASE type = "config" ->
            {"cfg_service", "cfg_path", "cfg_archive", "cfg_rmtree"}
      [] type = "database" ->
            {"db_check", "db_dump", "db_galera", "db_archive", "db_rmtree"}
      [] type = "monitoring" ->
            {"mon_prometheus", "mon_grafana", "mon_dashboards",
             "mon_archive", "mon_rmtree"}

\* the archive of the type holds, whole, what the staging directory holds
ArchivedWhole(fs, type) ==
    LET staging == type \o "_" \o ts
        arch    == type \o "_backup_" \o ts \o ".tar.gz"
    IN  /\ arch \in DOMAIN fs /\ staging \in DOMAIN fs
        /\ ~fs[arch].torn
        /\ staging \in DOMAIN fs[arch].body
        /\ \A rel \in DOMAIN fs[staging].body :
              /\ (staging \o "/" \o rel) \in DOMAIN fs[arch].body
              /\ fs[arch].body[staging \o "/" \o rel] = fs[staging].body[rel]

\* C28: in every backup-type operation, the step that removes the staging
\* directory is taken only when the archive holds the whole staging tree,
\* and it leaves the archive as it is; between the two steps both are on
\* disk; and at no position of the operation are both missing.
C28_ArchiveBeforeStagingRemoval ==
    /\ [][\A type \in ArchiveTypes :
            ((type \o "_" \o ts) \in DOMAIN root
               /\ (type \o "_" \o ts) \notin DOMAIN root') =>
                /\ ArchivedWhole(root, type)
                /\ (type \o "_backup_" \o ts \o ".tar.gz") \in DOMAIN root'
                /\ root'[type \o "_backup_" \o ts \o ".tar.gz"] =
                      root[type \o "_backup_" \o ts \o ".tar.gz"]]_vars
    /\ [](\A type \in ArchiveTypes :
            /\ pc \in {"cfg_rmtree", "db_rmtree", "mon_rmtree"} \cap
                      StagingPositions(type) => ArchivedWhole(root, type)
            /\ pc \in StagingPositions(type) =>
                  (type \o "_" \o ts) \in DOMAIN root)

C28_Witness ==
    /\ pc = "done" /\ cmd.name = "database" /\ ~outcome.raised
    /\ LogHas(<<"is-active", "active">>)
    /\ ~Exists(StagingName("database", ts))
    /\ Exists(ArchiveName("database", ts))
    /\ ~root[ArchiveName("database", ts)].torn
    /\ "database_20240101_000001/radius_20240101_000001.sql.gz"
          \in DOMAIN root[ArchiveName("database", ts)].body

\* C29: the archive a database backup has written holds the compressed
\* dump {db}_{timestamp}.sql.gz of a configured database exactly when that
\* database's outcome is success, and the uncompressed {db}_{timestamp}.sql
\* of no database.
C29_OnlyCompressedDumpsArchived ==
    (cmd.name = "database" /\ pc = "done" /\ ~outcome.raised
       /\ LogHas(<<"is-active", "active">>)) =>
        LET members == DOMAIN root[ArchiveName("database", ts)].body
            dump(db) == "database_" \o ts \o "/" \o db \o "_" \o ts \o ".sql"
        IN  \A k \in 1..Len(db_databases) :
               /\ (dump(db_databases[k]) \o ".gz") \in members <=>
                     outcome.ret[db_databases[k]] = "success"
               /\ dump(db_databases[k]) \notin members

\* the configured databases whose compressed dump the archive of the
\* restore in hand does not hold, by their place in the configured list
MissingDumps ==
    {k \in 1..Len(db_databases) :
        ("database_" \o ts \o "/" \o db_databases[k] \o "_" \o ts \o ".sql.gz")
           \notin DOMAIN root[ArchiveName("database", ts)].body}

\* the first configured database whose compressed dump is missing
FirstMissing == CHOOSE k \in MissingDumps : \A j \in MissingDumps : k <= j

\* a restore of the full configured list is under way from a whole archive
\* that lacks some compressed dump
RestoringWithMissingDump ==
    /\ cmd.name = "restore_database" /\ cmd.arg = ""
    /\ pc \in {"rd_db", "rd_cleanup", "done"}
    /\ Exists(ArchiveName("database", ts))
    /\ ~root[ArchiveName("database", ts)].torn
    /\ MissingDumps # {}

\* C30: a restore of the full configured list from an archive that lacks
\* the compressed dump of some database starts no restore command for the
\* first such database b nor for any database after it, and never returns
\* True; while its loop runs, every database before the one in turn has
\* been restored with exit code 0 and the one in turn is b or before b;
\* and the step of the loop at b returns False with no command started.
C30_MissingDumpFailsAtThatDatabase ==
    /\ [](RestoringWithMissingDump =>
            LET ran == SelectSeq(log, IsMysql)
            IN  /\ Len(ran) <= FirstMissing - 1
                /\ \A k \in 1..Len(ran) : ran[k][2] = db_databases[k]
                /\ pc # "rd_cleanup"
                /\ pc = "done" => (outcome.ret = FALSE /\ outcome.exit = 1)
                /\ pc = "rd_db" =>
                      /\ si <= FirstMissing
                      /\ Len(ran) = si - 1
                      /\ \A k \in 1..Len(ran) : ran[k][3] = "0")
    /\ [][(RestoringWithMissingDump /\ pc = "rd_db" /\ si = FirstMissing) =>
            (pc' = "done" /\ outcome'.ret = FALSE /\ log' = log)]_vars

C30_Witness ==
    /\ pc = "done" /\ cmd.name = "restore_database" /\ cmd.arg = ""
    /\ outcome.ret = FALSE
    /\ Exists(ArchiveName("database", ts))
    /\ ~root[ArchiveName("database", ts)].torn
    /\ MissingDumps = {2}
    /\ SelectSeq(log, IsMysql) = << <<"mysql", "kamailio", "0">> >>

\* a step of the named-service loop that replaces a live path from the
\* extracted tree
NamedReplaces ==
    /\ pc = "rc_named"
    /\ pi <= Len(PathsOf(cmd.arg))
    /\ RcSource(cmd.arg, PathsOf(cmd.arg)[pi]) # Absent

\* C31: whatever the live path is (a directory, a file or absent), what
\* the restore of a named service does to one of its paths, and whether it
\* fails there, is what the restore of all services does to that path from
\* the same extracted tree.
C31_NamedRestoreAsAllServices ==
    [][NamedReplaces =>
         LET path == PathsOf(cmd.arg)[pi]
         IN  \E o \in ReplaceAll(RcSource(cmd.arg, path), live[path]) :
                 /\ live'[path] = o.entry
                 /\ o.raised <=> (pc' = "done")
                 /\ o.fault <=> (faults' # faults)]_vars

\* registry order
Before(nm, cur) == nm[1] < cur[1] \/ (nm[1] = cur[1] /\ nm[2] < cur[2])

\* an all-services restore is in its loop, or has failed in it
AllServicesRestore ==
    /\ cmd.name = "restore_config" /\ cmd.arg = ""
    /\ \/ pc = "rc_all"
       \/ pc = "done" /\ outcome.ret = FALSE

\* every staged path before the position of the loop holds what the
\* extracted tree has for it
PrefixReplaced ==
    AllServicesRestore =>
        \A nm \in RegistryIndex :
            (/\ Before(nm, <<si, pi>>)
             /\ Exists(TempRestoreName(ts))
             /\ MemberAt(nm) \in DOMAIN root[TempRestoreName(ts)].body) =>
                live[PathAt(nm)] = root[TempRestoreName(ts)].body[MemberAt(nm)]

\* a step of the loop changes no live path but the one in hand, and the
\* position of the loop never goes back
OnlyPathInHand ==
    (cmd.name = "restore_config" /\ cmd.arg = "" /\ pc = "rc_all") =>
        /\ \A nm \in RegistryIndex :
              live'[PathAt(nm)] # live[PathAt(nm)] => nm = <<si, pi>>
        /\ ~Before(<<si', pi'>>, <<si, pi>>)

\* the step of the loop on which a remove or a copy fails
FailsAtPath ==
    /\ cmd.name = "restore_config" /\ cmd.arg = ""
    /\ pc = "rc_all" /\ pc' = "done"

\* C32 as stated: when an all-services restore fails at a path, every
\* staged path before it has been replaced from the archive, no path after
\* it was touched, and the failing path is as it was or is gone.
C32_PrefixClosedWholePaths ==
    /\ [](PrefixReplaced)
    /\ [][/\ OnlyPathInHand
          /\ FailsAtPath =>
                \/ live'[PathAt(<<si, pi>>)] = live[PathAt(<<si, pi>>)]
                \/ live'[PathAt(<<si, pi>>)] = Absent]_vars

\* C32, amended: when an all-services restore fails at a path, every
\* staged path before it has been replaced from the archive, no path after
\* it was touched, and the failing path is as it was, gone, partly
\* removed, or holds a part of its replacement: never the whole of it
\* (of a staged copy that is itself partial, a part is again "torn").
C32_PrefixClosed ==
    /\ [](PrefixReplaced)
    /\ [][/\ OnlyPathInHand
          /\ FailsAtPath =>
                LET path == PathAt(<<si, pi>>)
                    src  == root[TempRestoreName(ts)].body[MemberAt(<<si, pi>>)]
                IN  /\ live'[path] \in {live[path], Absent,
                                        [live[path] EXCEPT !.data = Torn],
                                        [src EXCEPT !.data = Torn]}
                    /\ (live'[path] = src /\ src.data # Torn) =>
                          live[path] = src]_vars

C32_Witness ==
    /\ pc = "done" /\ cmd.name = "restore_config" /\ cmd.arg = ""
    /\ outcome.ret = FALSE
    /\ <<si, pi>> = <<2, 1>>
    /\ Exists(TempRestoreName(ts))
    /\ MemberAt(<<1, 1>>) \in DOMAIN root[TempRestoreName(ts)].body
    /\ MemberAt(<<2, 1>>) \in DOMAIN root[TempRestoreName(ts)].body
    /\ live[PathAt(<<1, 1>>)] = root[TempRestoreName(ts)].body[MemberAt(<<1, 1>>)]
    /\ live[PathAt(<<2, 1>>)].data = Torn

\* a restore given again is at a step that no check of its own makes fail:
\* the archive is whole, and the step replaces a staged path, restores a
\* database whose dump is there, or is the extraction or the cleanup
RetryStep ==
    /\ restores > MaxRestores
    /\ \/ /\ cmd.name = "restore_config"
          /\ pc \in {"rc_extract", "rc_named", "rc_all", "rc_cleanup"}
          /\ ~root[ArchiveName("config", ts)].torn
       \/ /\ cmd.name = "restore_database"
          /\ pc \in {"rd_extract", "rd_db", "rd_cleanup"}
          /\ ~root[ArchiveName("database", ts)].torn
          /\ (pc = "rd_db" /\ si <= Len(DatabasesToRestore(cmd.arg))) =>
                RdSqlFileExists(DatabasesToRestore(cmd.arg)[si])

\* the live paths a configuration restore was asked for hold what the
\* archive has for them
TargetsAsArchived ==
    \A nm \in RegistryIndex :
        (/\ cmd.arg \in {"", config_paths[nm[1]].service}
         /\ MemberAt(nm) \in DOMAIN root[ArchiveName("config", ts)].body) =>
            live[PathAt(nm)] = root[ArchiveName("config", ts)].body[MemberAt(nm)]

\* C33: on a host nobody else changes, a restore given again after earlier
\* restores of the same timestamp, some of which failed, fails at no step
\* on which no I/O or command failure happens, and when it has returned
\* True the live paths it was asked for hold the archive's content.
C33_FailedRestoreDoesNotBlock ==
    /\ [][(RetryStep /\ faults' = faults) =>
            (pc' = "done" => outcome'.ret = TRUE)]_vars
    /\ [](/\ restores > MaxRestores
          /\ pc = "done" /\ cmd.name = "restore_config"
          /\ outcome.ret = TRUE
          => TargetsAsArchived)

\* the metadata record of the timestamp says the engine was not active
RecordedNotRunning(t) ==
    /\ Exists(MetadataName(t))
    /\ "databases" \in DOMAIN root[MetadataName(t)].body.results
    /\ root[MetadataName(t)].body.results["databases"] =
          [k \in {"database_service"} |-> "not_running"]

\* C34: a database backup that found the engine not active goes through no
\* dump and no archive step and leaves no database archive of its
\* timestamp; a database archive appears only on the archive step of a
\* database backup; a database restore of a timestamp without archive, or
\* of one whose metadata record says the engine was not active, has
\* returned False at once, with no restore command started and nothing
\* extracted; and a full backup that found the engine not active ends with
\* its metadata record written, and with the configuration and the
\* monitoring archive of each of the two components that did not raise.
C34_InactiveEngineLeavesNoArchive ==
    /\ []((cmd.name \in {"database", "full"}
            /\ LogHas(<<"is-active", "inactive">>)) =>
             /\ ~Exists(ArchiveName("database", ts))
             /\ pc \notin {"db_dump", "db_galera", "db_archive", "db_rmtree"}
             /\ SelectSeq(log, IsDump) = <<>>)
    /\ [][\A t \in Timestamps :
            (~Exists(ArchiveName("database", t))
               /\ ArchiveName("database", t) \in DOMAIN root') =>
                  (pc = "db_archive" /\ t = ts)]_vars
    /\ []((cmd.name = "restore_database"
            /\ (~Exists(ArchiveName("database", ts))
                  \/ RecordedNotRunning(ts))) =>
             /\ pc = "done"
             /\ outcome.ret = FALSE /\ outcome.exit = 1
             /\ SelectSeq(log, IsMysql) = <<>>
             /\ ~Exists(TempDbRestoreName(ts)))
    /\ []((cmd.name = "full" /\ pc = "done"
            /\ LogHas(<<"is-active", "inactive">>)) =>
             /\ RecordedNotRunning(ts)
             /\ \A c \in {"configurations", "monitoring"} :
                   /\ c \in DOMAIN info.results
                   /\ info.results[c] # [k \in {"error"} |-> "error"] =>
                         Exists(ArchiveName(
                            IF c = "configurations" THEN "config"
                            ELSE "monitoring", ts)))

C34_Witness ==
    /\ cmd.name = "restore_database" /\ pc = "done"
    /\ outcome.ret = FALSE
    /\ RecordedNotRunning(ts)
    /\ Exists(ArchiveName("config", ts))
    /\ Exists(ArchiveName("monitoring", ts))
    /\ ~Exists(ArchiveName("database", ts))

FullComponents == {"configurations", "databases", "monitoring"}

\* C35: every metadata record in the backup root has backup_type "full",
\* the timestamp of its name, and a results map with exactly the keys
\* configurations, databases and monitoring; and in the record of the full
\* backup that has just ended, a component that raised has the single
\* entry "error" and a component that returned has a map without it.
C35_MetadataRecordShape ==
    /\ \A t \in Timestamps :
          Exists(MetadataName(t)) =>
             LET rec == root[MetadataName(t)].body
             IN  /\ ~root[MetadataName(t)].torn
                 /\ rec.timestamp = t
                 /\ rec.backup_type = "full"
                 /\ DOMAIN rec.results = FullComponents
    /\ (cmd.name = "full" /\ pc = "done") =>
          /\ Exists(MetadataName(ts))
          /\ \A c \in FullComponents :
                LET held == root[MetadataName(ts)].body.results[c]
                IN  /\ LogHas(<<"raised", c>>) # LogHas(<<"returned", c>>)
                    /\ LogHas(<<"raised", c>>) =>
                          held = [k \in {"error"} |-> "error"]
                    /\ LogHas(<<"returned", c>>) =>
                          "error" \notin DOMAIN held

C35_Witness ==
    /\ cmd.name = "full" /\ pc = "done"
    /\ Exists(MetadataName(ts))
    /\ root[MetadataName(ts)].body.results["configurations"] =
          [k \in {"error"} |-> "error"]
    /\ "kamailio" \in DOMAIN root[MetadataName(ts)].body.results["databases"]
    /\ root[MetadataName(ts)].body.results["databases"]["kamailio"] = "success"

NamedServiceNotArchived ==
    /\ cmd.name = "restore_config" /\ cmd.arg # ""
    /\ Exists(ArchiveName("config", ts))
    /\ ("config_" \o ts \o "/" \o cmd.arg)
          \notin DOMAIN root[ArchiveName("config", ts)].body

\* C37: a configuration restore with a named service of which the archive
\* has no directory changes no live path at any step, never enters the
\* loop over the service's paths nor the cleanup, and whenever it is over
\* it has returned False, with exit code 1.
C37_MissingServiceFails ==
    /\ [][NamedServiceNotArchived =>
            /\ live' = live
            /\ pc' \notin {"rc_named", "rc_all", "rc_cleanup"}]_vars
    /\ []((NamedServiceNotArchived /\ pc = "done") =>
             (outcome.ret = FALSE /\ outcome.exit = 1))

C37_Witness ==
    /\ pc = "done" /\ cmd.name = "restore_config" /\ cmd.arg = "nosuch"
    /\ outcome.ret = FALSE
    /\ faults = 0
    /\ LogHas(<<"extracted", "configurations">>)
    /\ Exists(ArchiveName("config", ts))
    /\ ~root[ArchiveName("config", ts)].torn
    /\ Exists(TempRestoreName(ts))
    /\ "config_20240101_000001/kamailio"
          \in DOMAIN root[TempRestoreName(ts)].body
    /\ "config_20240101_000001/nosuch"
          \notin DOMAIN root[TempRestoreName(ts)].body
====
